---------------------------- MODULE Spec2Model ----------------------------
(***************************************************************************)
(* Record-normalisation pipeline of "transformation tool-1":               *)
(*   validateRecord (lib/validation-engine.ts), processRecordSafely and    *)
(*   processBatch (lib/batch-processor.ts), linkRecordsByTopic and         *)
(*   validateData (lib/validator.ts), cleanUnifiedData and cleanData       *)
(*   (lib/cleaner.ts).                                                     *)
(*                                                                         *)
(* Text is a sequence of tokens: a token is a word (or a whole JSON text)  *)
(* or a single white-space character, so that trim(), length and the       *)
(* white-space regular expressions act on it as they act on the string.    *)
(* An optional value (undefined in the source) is a sequence of length 0   *)
(* or 1.                                                                   *)
(***************************************************************************)
EXTENDS Integers, Sequences, FiniteSets, TLC

VARIABLES
    mode,                \* which entry point the caller is exercising
    pc,                  \* position inside that entry point
    records,             \* processBatch: the batch handed in
    recordsByFile,       \* processBatch: <<fileName, fileRecords>> in creation order
    fileQueue,           \* processBatch: Object.entries(recordsByFile) still to visit
    recIdx,              \* processBatch: index of the next record of the current file
    fileAborted,         \* processBatch: the current file's abort flag
    successful_records,  \* processBatch: result list
    failed_records,      \* processBatch: result list
    summary,             \* processBatch: {total, success, failed, warnings}
    validated,           \* ids handed to validateRecord, in call order
    linkArgs,            \* linkRecordsByTopic: the records handed in
    anchor,              \* linkRecordsByTopic: <<anchorTopic, anchorGroupId>>, if any
    linked,              \* linkRecordsByTopic: the records mapped so far
    TOPIC_REGISTRY,      \* validator.ts: module-level registry, <<topic, group id>> pairs
    calls,               \* linkRecordsByTopic: calls made so far
    cleanArgs,           \* cleanUnifiedData: the records handed in
    cleanIdx,            \* cleanUnifiedData: index of the next record of the forEach
    phase,               \* cleanUnifiedData: cleanedTextRecords, counters, seenContent
    cleanOut,            \* cleanUnifiedData: the value returned, if any
    firstOut,            \* cleanUnifiedData: the value an earlier call returned, if any
    data,                \* cleanData: the rows handed in
    blocks,              \* cleanData: bulk blocks appended to the rows so far
    rowPhase,            \* cleanData: dropped_rows, cleaned_data, counters after forEach
    report,              \* cleanData: the CleaningReport returned, if any
    now,                 \* the system clock, in seconds since the session began
    errorReports,        \* generateErrorReport: the reports returned so far
    semantics,           \* validateData: the semantic mapping handed in
    tally,               \* validateData: issues and counters of the call, if entered
    validationOut,       \* validateData: the ValidationReport returned, if any
    draft,               \* cleanUnifiedData (earlier version): the record handed in
    enriched,            \* cleanUnifiedData (earlier version): the record pushed, if any
    analysis,            \* inferSemanticMapping: the names of the analysed columns
    sample,              \* inferSemanticMapping: the rows handed in
    inferred             \* inferSemanticMapping: the mapping returned, if any

batchVars == <<records, recordsByFile, fileQueue, recIdx, fileAborted,
               successful_records, failed_records, summary, validated>>

linkVars == <<linkArgs, anchor, linked, TOPIC_REGISTRY, calls>>

cleanVars == <<cleanArgs, cleanIdx, phase, cleanOut, firstOut>>

tableVars == <<data, blocks, rowPhase, report>>

reportVars == <<now, errorReports>>

validateVars == <<semantics, tally, validationOut>>

enrichVars == <<draft, enriched>>

inferVars == <<analysis, sample, inferred>>

nonBatchVars == <<linkVars, cleanVars, tableVars, reportVars, validateVars, enrichVars, inferVars>>

nonLinkVars == <<batchVars, cleanVars, tableVars, reportVars, validateVars, enrichVars, inferVars>>

nonCleanVars == <<batchVars, linkVars, tableVars, reportVars, validateVars, enrichVars, inferVars>>

nonTableVars == <<batchVars, linkVars, cleanVars, reportVars, validateVars, enrichVars, inferVars>>

nonReportVars == <<linkVars, cleanVars, tableVars, validateVars, enrichVars, inferVars>>

nonValidateVars == <<batchVars, linkVars, cleanVars, reportVars, rowPhase, report, enrichVars, inferVars>>

nonEnrichVars == <<batchVars, linkVars, cleanVars, tableVars, reportVars, validateVars, inferVars>>

nonInferVars == <<batchVars, linkVars, cleanVars, tableVars, reportVars, validateVars, enrichVars>>

vars == <<mode, pc, batchVars, linkVars, cleanVars, tableVars, reportVars, validateVars, enrichVars, inferVars>>

---------------------------------------------------------------------------
(* Bounds of the model *)

MaxBatch == 3

MaxLink == 3

MaxCalls == 2

MaxClean == 3

MaxRows == 3

MaxBlocks == 2

BlockSize == 51

MaxLead == 1

MaxReportBatch == 2

MaxClock == 2

MaxRuns == 2

MaxValues == 2

MaxKeys == 2

MaxColumns == 2

SampleRows == 6

---------------------------------------------------------------------------
(* Program constants *)

PdfMinLen == 50

SummaryMaxLen == 500

MinConfidenceCenti == 70

ShoutMinLen == 10

IssueCap == 1000

ReportLimit == 100

MinOutlierValues == 10

FailBelow == 60

WarnBelow == 90

PhoneMinDigits == 7

PhoneMaxDigits == 15

---------------------------------------------------------------------------
(* Generic helpers *)

None == << >>

Some(x) == <<x>>

IsSome(o) == Len(o) > 0

Get(o) == o[1]

Range(s) == { s[i] : i \in 1..Len(s) }

\* F applied to the value of v
Bind(v, F(_)) == CHOOSE r \in { F(x) : x \in {v} } : TRUE

RECURSIVE SumLen(_)
SumLen(text) == IF text = << >> THEN 0 ELSE Len(Head(text)) + SumLen(Tail(text))

---------------------------------------------------------------------------
(* JavaScript string built-ins on token text *)

WhiteSpace == {" ", "\n", "\t"}

IsBlank(text) == \A i \in 1..Len(text) : text[i] \in WhiteSpace

RECURSIVE TrimStart(_)
TrimStart(text) ==
    IF text # << >> /\ Head(text) \in WhiteSpace THEN TrimStart(Tail(text)) ELSE text

RECURSIVE TrimEnd(_)
TrimEnd(text) ==
    IF text # << >> /\ text[Len(text)] \in WhiteSpace
    THEN TrimEnd(SubSeq(text, 1, Len(text) - 1))
    ELSE text

Trim(text) == TrimEnd(TrimStart(text))

\* String.prototype.length: the number of characters
Length(text) == SumLen(text)

\* toLowerCase of one token of the vocabulary
LowerTok(tok) ==
    CASE tok = "This" -> "this"
      [] tok = "The" -> "the"
      [] tok = "Summary" -> "summary"
      [] tok = "Plants" -> "plants"
      [] tok = "PLANTS" -> "plants"
      [] tok = "Um" -> "um"
      [] tok = "USE" -> "use"
      [] tok = "LIGHT" -> "light"
      [] tok = "Newton" -> "newton"
      [] tok = "Force" -> "force"
      [] tok = "Photosynthesis" -> "photosynthesis"
      [] tok = "SQL" -> "sql"
      [] tok = "Page" -> "page"
      [] tok = "CO2" -> "co2"
      [] tok = "Ph0tosynthes1s" -> "ph0tosynthes1s"
      [] tok = "TEH" -> "teh"
      [] tok = "Chapter" -> "chapter"
      [] tok \in {"e.G.", "E.G."} -> "e.g."
      [] tok = "Needs" -> "needs"
      [] tok = "Notes" -> "notes"
      [] tok = "Not" -> "not"
      [] tok = "Use" -> "use"
      [] tok = "John@EXAMPLE.com" -> "john@example.com"
      [] tok = "John@Example" -> "john@example"
      [] tok = "Email" -> "email"
      [] tok = "Company" -> "company"
      [] OTHER -> tok

\* toUpperCase of one token of the vocabulary
UpperTok(tok) ==
    CASE tok \in {"Plants", "plants"} -> "PLANTS"
      [] tok \in {"use", "Use"} -> "USE"
      [] tok = "light" -> "LIGHT"
      [] tok \in {"Um", "um"} -> "UM"
      [] tok \in {"this", "This"} -> "THIS"
      [] tok = "audio" -> "AUDIO"
      [] tok = "is" -> "IS"
      [] tok = "clear" -> "CLEAR"
      [] tok \in {"Notes", "notes"} -> "NOTES"
      [] tok \in {"Page", "page"} -> "PAGE"
      [] tok \in {"Ph0tosynthes1s", "ph0tosynthes1s"} -> "PH0TOSYNTHES1S"
      [] tok \in {"Photosynthesis", "photosynthesis"} -> "PHOTOSYNTHESIS"
      [] tok \in {"needs", "Needs"} -> "NEEDS"
      [] tok = "co2" -> "CO2"
      [] tok = "carbon" -> "CARBON"
      [] tok = "dioxide" -> "DIOXIDE"
      [] tok = "w/o" -> "W/O"
      [] tok = "witho" -> "WITHO"
      [] tok = "teh" -> "TEH"
      [] tok = "the" -> "THE"
      [] tok = "at" -> "AT"
      [] tok = "noon" -> "NOON"
      [] tok \in {"not", "Not"} -> "NOT"
      [] tok = "json" -> "JSON"
      [] tok \in {"e.g.", "e.G."} -> "E.G."
      [] OTHER -> tok

\* the token with its first character in upper case
UpperFirst(tok) ==
    CASE tok = "plants" -> "Plants"
      [] tok = "um" -> "Um"
      [] tok = "this" -> "This"
      [] tok = "notes" -> "Notes"
      [] tok = "page" -> "Page"
      [] tok = "photosynthesis" -> "Photosynthesis"
      [] tok = "ph0tosynthes1s" -> "Ph0tosynthes1s"
      [] tok = "needs" -> "Needs"
      [] tok = "not" -> "Not"
      [] tok = "use" -> "Use"
      [] tok = "light" -> "Light"
      [] tok = "e.G." -> "E.G."
      [] OTHER -> tok

\* the token with every letter that directly follows a '.', '?' or '!' inside it
\* in upper case
UpperInside(tok) == IF tok = "e.g." THEN "e.G." ELSE tok

\* the token ends in '.', '?' or '!'
EndsSentence(tok) == tok \in {".", "?", "!", "e.g.", "e.G.", "E.G."}

\* \w: the token begins with a letter, a digit or an underscore
StartsWithWordChar(tok) == tok \notin WhiteSpace \cup {"#", "##", "{}", "|", ".", "?", "!", ""}


ToLowerCase(text) == [i \in 1..Len(text) |-> LowerTok(text[i])]

ToUpperCase(text) == [i \in 1..Len(text) |-> UpperTok(text[i])]

StartsWith(text, pat) ==
    Len(text) >= Len(pat) /\ SubSeq(text, 1, Len(pat)) = pat

Includes(text, pat) ==
    \E i \in 1..(Len(text) - Len(pat) + 1) : SubSeq(text, i, i + Len(pat) - 1) = pat

\* truthiness of an optional string: undefined and '' are falsy
Truthy(o) == IsSome(o) /\ Get(o) # << >>

\* record.topic / record.group_id are plain strings; trim() of a blank one is ''
BlankStr(s) == s \in {"", " "}

\* the facts the callers read of a parsed JSON value: whether it is null (reading
\* a property of it throws), its own keys, and whether obj.topic / obj.Topic are
\* truthy
Json(isNull, keys, topic, Topic) ==
    [isNull |-> isNull, keys |-> keys, topic |-> topic, Topic |-> Topic]

\* JSON.parse: None when it throws SyntaxError
JsonValue(body) ==
    IF Len(body) # 1 THEN None
    ELSE CASE body[1] = "{}" -> Some(Json(FALSE, {}, FALSE, FALSE))
           [] body[1] = "{\"a\":1}" -> Some(Json(FALSE, {"a"}, FALSE, FALSE))
           [] body[1] = "{\"topic\":\"x\"}" -> Some(Json(FALSE, {"topic"}, TRUE, FALSE))
           [] body[1] = "{\"Topic\":\"x\"}" -> Some(Json(FALSE, {"Topic"}, FALSE, TRUE))
           [] body[1] = "{\"topic\":\"\"}" -> Some(Json(FALSE, {"topic"}, FALSE, FALSE))
           [] body[1] = "null" -> Some(Json(TRUE, {}, FALSE, FALSE))
           [] body[1] = "[1]" -> Some(Json(FALSE, {"0"}, FALSE, FALSE))
           [] OTHER -> None

JsonParse(o) == JsonValue(IF IsSome(o) THEN Trim(Get(o)) ELSE <<"undefined">>)

\* parseFloat(String(confidence)) in hundredths; None is NaN
ParseFloatCenti(s) ==
    CASE s = "0.5" -> Some(50)
      [] s = "0.69" -> Some(69)
      [] s = "0.7" -> Some(70)
      [] s = "0.9" -> Some(90)
      [] OTHER -> None

---------------------------------------------------------------------------
(* validation-engine.ts: validateRecord *)

Err(code, severity, message) ==
    [code |-> code, severity |-> severity, message |-> message]

\* the outcome of a call: either it returns or it throws
Returned(errors) == [threw |-> FALSE, message |-> "", errors |-> errors]

Thrown(message, errors) == [threw |-> TRUE, message |-> message, errors |-> errors]

validateGeneralRules(record) ==
    (IF ~Truthy(record.structured_content) \/ IsBlank(Get(record.structured_content))
     THEN <<Err("EMPTY_CONTENT", "CRITICAL", "Structured content must not be empty")>>
     ELSE << >>)
    \o (IF BlankStr(record.topic)
        THEN <<Err("MISSING_TOPIC", "HIGH", "Topic must exist")>>
        ELSE << >>)
    \o (IF BlankStr(record.group_id)
        THEN <<Err("MISSING_GROUP_ID", "HIGH", "Group ID must exist")>>
        ELSE << >>)

AudioErrors(content) ==
    (IF StartsWith(content, <<"this", " ", "audio">>)
        \/ StartsWith(content, <<"the", " ", "lecture">>)
     THEN <<Err("INVALID_AUDIO_START", "HIGH", "Audio transcript starts with prohibited phrase")>>
     ELSE << >>)
    \o (IF Includes(content, <<"summary">>) /\ Length(content) < SummaryMaxLen
        THEN <<Err("POTENTIAL_SUMMARY", "HIGH", "Content appears to be a summary")>>
        ELSE << >>)
    \o (IF Includes(content, <<"#", " ">>) \/ Includes(content, <<"##", " ">>)
        THEN <<Err("MARKDOWN_DETECTED", "MEDIUM", "Audio transcript contains markdown headers")>>
        ELSE << >>)

\* record.structured_content.toLowerCase() throws on a record without content
validateAudioRules(record, errors) ==
    IF ~IsSome(record.structured_content)
    THEN Thrown("Cannot read properties of undefined (reading 'toLowerCase')", errors)
    ELSE Returned(errors \o AudioErrors(ToLowerCase(Get(record.structured_content))))

\* parseFloat(String(record.metadata.confidence)) when the field is truthy
Confidence(record) ==
    IF IsSome(record.metadata.confidence) /\ Get(record.metadata.confidence) # ""
    THEN ParseFloatCenti(Get(record.metadata.confidence))
    ELSE None

PdfErrors(length, conf) ==
    (IF length < PdfMinLen
     THEN <<Err("PDF_TEXT_TOO_SHORT", "HIGH",
                "Page text length is below minimum threshold (50 chars)")>>
     ELSE << >>)
    \o (IF IsSome(conf) /\ Get(conf) < MinConfidenceCenti
        THEN <<Err("LOW_OCR_CONFIDENCE", "MEDIUM", "OCR confidence is below threshold")>>
        ELSE << >>)

\* record.structured_content.length throws on a record without content
validatePDFRules(record, errors) ==
    IF ~IsSome(record.structured_content)
    THEN Thrown("Cannot read properties of undefined (reading 'length')", errors)
    ELSE Returned(errors \o PdfErrors(Length(Get(record.structured_content)),
                                      Confidence(record)))

\* raw_content || structured_content
ContentToCheck(record) ==
    IF Truthy(record.raw_content) THEN record.raw_content ELSE record.structured_content

\* obj.topic || obj.Topic; reading a property of null throws, which is swallowed
DeclaresTopic(obj) ==
    IsSome(obj) /\ ~Get(obj).isNull /\ (Get(obj).topic \/ Get(obj).Topic)

ApiErrors(obj) ==
    (IF ~IsSome(obj)
     THEN <<Err("INVALID_JSON", "CRITICAL", "Source content is not valid JSON")>>
     ELSE << >>)
    \o (IF DeclaresTopic(obj)
        THEN <<Err("INDEPENDENT_TOPIC_DEFINED", "HIGH",
                   "API record defines its own topic field, which is prohibited")>>
        ELSE << >>)

validateAPIRules(record, errors) ==
    Returned(errors \o ApiErrors(JsonParse(ContentToCheck(record))))

CsvErrors(obj) ==
    (IF ~IsSome(obj)
     THEN <<Err("INVALID_CSV_JSON", "CRITICAL", "CSV raw content is not valid JSON structure")>>
     ELSE << >>)
    \o (IF DeclaresTopic(obj)
        THEN <<Err("CSV_TOPIC_COLUMN", "MEDIUM",
                   "CSV contains a \"topic\" column which might conflict with system topic")>>
        ELSE << >>)

validateCSVRules(record, errors) ==
    Returned(errors \o CsvErrors(JsonParse(ContentToCheck(record))))

\* the switch on record.source_type
validateTypeRules(record, errors) ==
    CASE record.source_type = "audio" -> validateAudioRules(record, errors)
      [] record.source_type = "pdf" -> validatePDFRules(record, errors)
      [] record.source_type = "api" -> validateAPIRules(record, errors)
      [] record.source_type = "csv" -> validateCSVRules(record, errors)
      [] OTHER -> Returned(errors)

validateRecord(record) == validateTypeRules(record, validateGeneralRules(record))

\* ValidationResult.isValid
isValid(result) == result.errors = << >>

---------------------------------------------------------------------------
(* batch-processor.ts: processRecordSafely *)

HasSeverity(errors, sev) == \E i \in 1..Len(errors) : errors[i].severity = sev

\* faulty variant: the catch block reports the exception as CRITICAL
RecordResult_CriticalCatch(record, validation) ==
    IF validation.threw
    THEN [record |-> record,
          errors |-> Some(<<Err("ForcedException", "CRITICAL",
                                IF validation.message # "" THEN validation.message
                                ELSE "Unknown error processing record")>>),
          status |-> "FAILED"]
    ELSE IF ~isValid(validation)
         THEN IF HasSeverity(validation.errors, "CRITICAL")
                 \/ HasSeverity(validation.errors, "HIGH")
              THEN [record |-> record, errors |-> Some(validation.errors),
                    status |-> "FAILED"]
              ELSE [record |-> record, errors |-> Some(validation.errors),
                    status |-> "SUCCESS"]
         ELSE [record |-> record, errors |-> None, status |-> "SUCCESS"]

\* ProcessedRecordResult; errors is optional (absent on a clean record)
RecordResult(record, validation) ==
    IF validation.threw
    THEN [record |-> record,
          errors |-> Some(<<Err("ForcedException", "HIGH",
                                IF validation.message # "" THEN validation.message
                                ELSE "Unknown error processing record")>>),
          status |-> "FAILED"]
    ELSE IF ~isValid(validation)
         THEN IF HasSeverity(validation.errors, "CRITICAL")
                 \/ HasSeverity(validation.errors, "HIGH")
              THEN [record |-> record, errors |-> Some(validation.errors),
                    status |-> "FAILED"]
              ELSE [record |-> record, errors |-> Some(validation.errors),
                    status |-> "SUCCESS"]
         ELSE [record |-> record, errors |-> None, status |-> "SUCCESS"]

processRecordSafely(record) == RecordResult(record, validateRecord(record))

---------------------------------------------------------------------------
(* batch-processor.ts: processBatch *)

\* r.metadata.file_name || 'unknown_file'
FileKey(r) == IF r.metadata.file_name = "" THEN "unknown_file" ELSE r.metadata.file_name

\* the value of a property name that is a canonical array index; -1 otherwise
IndexKey(name) ==
    CASE name = "0" -> 0
      [] name = "7" -> 7
      [] name = "10" -> 10
      [] OTHER -> -1

KeyPos(groups, name) == CHOOSE i \in 1..Len(groups) : groups[i][1] = name

HasKey(groups, name) == \E i \in 1..Len(groups) : groups[i][1] = name

\* recordsByFile[fileName].push(r), creating the property first if absent
PushRecord(groups, r) ==
    LET fileName == FileKey(r) IN
    IF HasKey(groups, fileName)
    THEN [groups EXCEPT ![KeyPos(groups, fileName)] = <<fileName, Append(@[2], r)>>]
    ELSE Append(groups, <<fileName, <<r>> >>)

RECURSIVE GroupByFile(_, _)
GroupByFile(groups, recs) ==
    IF recs = << >> THEN groups
    ELSE GroupByFile(PushRecord(groups, Head(recs)), Tail(recs))

\* insert an entry into a list kept in ascending order of its index key
RECURSIVE InsertByIndex(_, _)
InsertByIndex(sorted, entry) ==
    IF sorted = << >> THEN <<entry>>
    ELSE IF IndexKey(entry[1]) < IndexKey(Head(sorted)[1])
         THEN <<entry>> \o sorted
         ELSE <<Head(sorted)>> \o InsertByIndex(Tail(sorted), entry)

RECURSIVE SortByIndex(_)
SortByIndex(entries) ==
    IF entries = << >> THEN << >>
    ELSE InsertByIndex(SortByIndex(Tail(entries)), Head(entries))

\* Object.entries: array-index keys in ascending numeric order, then the other
\* keys in the order in which they were created
ObjectEntries(groups) ==
    SortByIndex(SelectSeq(groups, LAMBDA e : IndexKey(e[1]) >= 0))
    \o SelectSeq(groups, LAMBDA e : IndexKey(e[1]) < 0)

FileAbortedError ==
    Err("FILE_ABORTED", "CRITICAL", "File processing aborted due to earlier CRITICAL error")

FailedEntry(record, fileName, errors) ==
    [record_id |-> record.id, source_file |-> fileName, errors |-> errors]

\* the loop state of processBatch
LoopState(aborted, ok, failed, sum, seen) ==
    [fileAborted |-> aborted, successful_records |-> ok, failed_records |-> failed,
     summary |-> sum, validated |-> seen]

\* faulty variant: only LOW errors count as warnings
Warnings_LowOnly(errors) == SelectSeq(errors, LAMBDA e : e.severity = "LOW")

Warnings(errors) ==
    SelectSeq(errors, LAMBDA e : e.severity = "MEDIUM" \/ e.severity = "LOW")

ErrorsOf(result) == IF IsSome(result.errors) THEN Get(result.errors) ELSE << >>

\* faulty variant: a CRITICAL error does not abort the file
Settle_NoAbort(st, fileName, record, result) ==
    IF result.status = "SUCCESS"
    THEN [st EXCEPT
            !.successful_records = Append(@, result.record),
            !.summary.success = @ + 1,
            !.summary.warnings = IF Len(Warnings(ErrorsOf(result))) > 0 THEN @ + 1 ELSE @]
    ELSE [st EXCEPT
            !.failed_records = Append(@, FailedEntry(record, fileName, ErrorsOf(result))),
            !.summary.failed = @ + 1]

\* lines 100-134: the record has been handed to processRecordSafely
Settle(st, fileName, record, result) ==
    IF HasSeverity(ErrorsOf(result), "CRITICAL")
    THEN [st EXCEPT
            !.fileAborted = TRUE,
            !.failed_records = Append(@, FailedEntry(record, fileName, ErrorsOf(result))),
            !.summary.failed = @ + 1]
    ELSE IF result.status = "SUCCESS"
         THEN [st EXCEPT
                 !.successful_records = Append(@, result.record),
                 !.summary.success = @ + 1,
                 !.summary.warnings = IF Len(Warnings(ErrorsOf(result))) > 0 THEN @ + 1 ELSE @]
         ELSE [st EXCEPT
                 !.failed_records = Append(@, FailedEntry(record, fileName, ErrorsOf(result))),
                 !.summary.failed = @ + 1]

\* faulty variant: a record of an aborted file is reported but not counted
ProcessOne_Uncounted(st, fileName, record) ==
    IF st.fileAborted
    THEN [st EXCEPT
            !.failed_records = Append(@, FailedEntry(record, fileName, <<FileAbortedError>>))]
    ELSE Settle([st EXCEPT !.validated = Append(@, record.id)], fileName, record,
                processRecordSafely(record))

\* one iteration of the inner loop (lines 82-135)
ProcessOne(st, fileName, record) ==
    IF st.fileAborted
    THEN [st EXCEPT
            !.failed_records = Append(@, FailedEntry(record, fileName, <<FileAbortedError>>)),
            !.summary.failed = @ + 1]
    ELSE Settle([st EXCEPT !.validated = Append(@, record.id)], fileName, record,
                processRecordSafely(record))

\* the inner loop over one file's records
RECURSIVE ProcessFile(_, _, _)
ProcessFile(st, fileName, fileRecords) ==
    IF fileRecords = << >> THEN st
    ELSE ProcessFile(ProcessOne(st, fileName, Head(fileRecords)), fileName, Tail(fileRecords))

\* the outer loop: fileAborted is declared anew for each file (line 80)
RECURSIVE ProcessFiles(_, _)
ProcessFiles(st, entries) ==
    IF entries = << >> THEN st
    ELSE ProcessFiles(
           ProcessFile([st EXCEPT !.fileAborted = FALSE], Head(entries)[1], Head(entries)[2]),
           Tail(entries))

InitialSummary(recs) == [total |-> Len(recs), success |-> 0, failed |-> 0, warnings |-> 0]

ResultOf(st) ==
    [successful_records |-> st.successful_records, failed_records |-> st.failed_records,
     summary |-> st.summary, validated |-> st.validated]

\* processBatch as a function of its argument
processBatch(recs) ==
    ResultOf(ProcessFiles(LoopState(FALSE, << >>, << >>, InitialSummary(recs), << >>),
                          ObjectEntries(GroupByFile(<< >>, recs))))

---------------------------------------------------------------------------
(* batch-processor.ts: generateErrorReport *)

\* err.suggestion: the suggestion validation-engine.ts attaches to an error of this
\* code, if it attaches one
suggestion(code) ==
    CASE code = "EMPTY_CONTENT" -> Some("Ensure the source file is not empty or corrupted")
      [] code = "MISSING_TOPIC" ->
           Some("Run topic linking before validation or check PDF anchor extraction")
      [] code = "INVALID_AUDIO_START" ->
           Some("Check if this is a summary instead of a raw transcript")
      [] code = "POTENTIAL_SUMMARY" -> Some("Use real speech-to-text")
      [] code = "PDF_TEXT_TOO_SHORT" -> Some("Check if page is scanned or blank")
      [] code = "LOW_OCR_CONFIDENCE" -> Some("Manual review recommended")
      [] code = "INDEPENDENT_TOPIC_DEFINED" -> Some("Remove \"topic\" field from source JSON")
      [] code = "CSV_TOPIC_COLUMN" ->
           Some("Ensure this column is not intended to override the group topic")
      [] OTHER -> None

\* new Date().toISOString() when the clock shows t seconds
ToISOString(t) == "2026-01-01T00:00:0" \o ToString(t) \o ".000Z"

\* the entries one failed record contributes (lines 149-157)
ErrorEntries(fail) ==
    [k \in 1..Len(fail.errors) |->
       [file |-> fail.source_file, record_id |-> fail.record_id,
        severity |-> fail.errors[k].severity, message |-> fail.errors[k].message,
        suggestion |-> suggestion(fail.errors[k].code)]]

RECURSIVE ReportErrors(_)
ReportErrors(failed) ==
    IF failed = << >> THEN << >>
    ELSE ErrorEntries(Head(failed)) \o ReportErrors(Tail(failed))

\* generateErrorReport called when the clock shows clock
generateErrorReport(batchResult, batchId, clock) ==
    [batch_id |-> batchId, timestamp |-> ToISOString(clock),
     errors |-> ReportErrors(batchResult.failed_records)]

---------------------------------------------------------------------------
(* validator.ts: generateShortHash, extractCanonicalTopic, linkRecordsByTopic *)

\* str.charCodeAt(i) for i = 0 .. str.length - 1, for the strings that reach it
CharCodes(topic) ==
    CASE
         topic = "Newton's First Law of Motion" ->
          <<78, 101, 119, 116, 111, 110, 39, 115, 32, 70, 105, 114, 115, 116,
            32, 76, 97, 119, 32, 111, 102, 32, 77, 111, 116, 105, 111, 110>>
      [] topic = "Newton's Second Law of Motion" ->
          <<78, 101, 119, 116, 111, 110, 39, 115, 32, 83, 101, 99, 111, 110,
            100, 32, 76, 97, 119, 32, 111, 102, 32, 77, 111, 116, 105, 111,
            110>>
      [] topic = "Newton's Third Law of Motion" ->
          <<78, 101, 119, 116, 111, 110, 39, 115, 32, 84, 104, 105, 114, 100,
            32, 76, 97, 119, 32, 111, 102, 32, 77, 111, 116, 105, 111, 110>>
      [] topic = "Classical Mechanics" ->
          <<67, 108, 97, 115, 115, 105, 99, 97, 108, 32, 77, 101, 99, 104, 97,
            110, 105, 99, 115>>
      [] topic = "Photosynthesis" ->
          <<80, 104, 111, 116, 111, 115, 121, 110, 116, 104, 101, 115, 105,
            115>>
      [] topic = "Cell Division (Mitosis)" ->
          <<67, 101, 108, 108, 32, 68, 105, 118, 105, 115, 105, 111, 110, 32,
            40, 77, 105, 116, 111, 115, 105, 115, 41>>
      [] topic = "Database Systems" ->
          <<68, 97, 116, 97, 98, 97, 115, 101, 32, 83, 121, 115, 116, 101,
            109, 115>>
      [] topic = "API Development" ->
          <<65, 80, 73, 32, 68, 101, 118, 101, 108, 111, 112, 109, 101, 110,
            116>>
      [] topic = "React Development" ->
          <<82, 101, 97, 99, 116, 32, 68, 101, 118, 101, 108, 111, 112, 109,
            101, 110, 116>>
      [] topic = "System Logs" ->
          <<83, 121, 115, 116, 101, 109, 32, 76, 111, 103, 115>>
      [] topic = "Chat History" ->
          <<67, 104, 97, 116, 32, 72, 105, 115, 116, 111, 114, 121>>
      [] topic = "General Unclassified" ->
          <<71, 101, 110, 101, 114, 97, 108, 32, 85, 110, 99, 108, 97, 115,
            115, 105, 102, 105, 101, 100>>

\* a 32-bit integer is kept as <<high half, low half>> of its two's complement
\* ((hash << 5) - hash) + char, then hash & hash
HashStep(hash, char) ==
    <<(32 * hash[1] - hash[1] + ((32 * hash[2] - hash[2] + char) \div 65536)) % 65536,
      (32 * hash[2] - hash[2] + char) % 65536>>

RECURSIVE HashLoop(_, _)
HashLoop(hash, codes) ==
    IF codes = << >> THEN hash ELSE HashLoop(HashStep(hash, Head(codes)), Tail(codes))

\* Math.abs of the signed value
MathAbs(hash) ==
    IF hash[1] < 32768 THEN hash
    ELSE IF hash[2] = 0 THEN <<65536 - hash[1], 0>>
         ELSE <<65535 - hash[1], 65536 - hash[2]>>

HexDigit(d) ==
    <<"0", "1", "2", "3", "4", "5", "6", "7", "8", "9", "a", "b", "c", "d", "e", "f">>[d + 1]

\* toString(16) of a number below 65536, as a sequence of digits
RECURSIVE Hex(_)
Hex(n) == IF n < 16 THEN <<HexDigit(n)>> ELSE Append(Hex(n \div 16), HexDigit(n % 16))

RECURSIVE PadStart(_, _, _)
PadStart(digits, width, fill) ==
    IF Len(digits) >= width THEN digits ELSE PadStart(<<fill>> \o digits, width, fill)

ToString16(hash) ==
    IF hash[1] = 0 THEN Hex(hash[2]) ELSE Hex(hash[1]) \o PadStart(Hex(hash[2]), 4, "0")

RECURSIVE Join(_)
Join(chars) == IF chars = << >> THEN "" ELSE Head(chars) \o Join(Tail(chars))

generateShortHash(str) ==
    Join(SubSeq(PadStart(ToString16(MathAbs(HashLoop(<<0, 0>>, CharCodes(str)))), 4, "0"),
                1, 4))

\* toLowerCase of a character code
LowerCode(c) == IF c >= 65 /\ c <= 90 THEN c + 32 ELSE c

\* [a-z0-9]
IsSlugCode(c) == (c >= 97 /\ c <= 122) \/ (c >= 48 /\ c <= 57)

CharOf(c) ==
    IF c >= 97
    THEN <<"a", "b", "c", "d", "e", "f", "g", "h", "i", "j", "k", "l", "m", "n", "o", "p",
           "q", "r", "s", "t", "u", "v", "w", "x", "y", "z">>[c - 96]
    ELSE HexDigit(c - 48)

\* replace(/[^a-z0-9]+/g, '-'): every run of other characters becomes one hyphen
RECURSIVE Hyphenate(_, _)
Hyphenate(codes, inRun) ==
    IF codes = << >> THEN << >>
    ELSE IF IsSlugCode(Head(codes))
         THEN <<CharOf(Head(codes))>> \o Hyphenate(Tail(codes), FALSE)
         ELSE (IF inRun THEN << >> ELSE <<"-">>) \o Hyphenate(Tail(codes), TRUE)

\* replace(/^-|-$/g, ''): one leading and one trailing hyphen are removed
StripEdgeHyphens(chars) ==
    SubSeq(chars,
           IF chars # << >> /\ Head(chars) = "-" THEN 2 ELSE 1,
           IF Len(chars) > 1 /\ chars[Len(chars)] = "-" THEN Len(chars) - 1 ELSE Len(chars))

kebabTopic(topic) ==
    Join(StripEdgeHyphens(
           Hyphenate([i \in 1..Len(CharCodes(topic)) |-> LowerCode(CharCodes(topic)[i])],
                     FALSE)))

\* faulty variant: the hash keeps all its digits
GroupIdOf_LongHash(topic) ==
    "topic-" \o kebabTopic(topic) \o "-"
      \o Join(ToString16(MathAbs(HashLoop(<<0, 0>>, CharCodes(topic)))))

\* `topic-${kebabTopic}-${topicHash}`
GroupIdOf(topic) == "topic-" \o kebabTopic(topic) \o "-" \o generateShortHash(topic)

\* the keywords of extractCanonicalTopic that occur inside one lower-case word
Fragments(tok) ==
    CASE tok = "photosynthesis" -> {"photosynthe"}
      [] tok = "plants" -> {"plant"}
      [] tok = "therapist" -> {"api"}
      [] tok = "hooks" -> {"hook"}
      [] OTHER -> {}

\* text.includes(word) for a keyword without white space
Mentions(text, word) ==
    \E i \in 1..Len(text) : text[i] = word \/ word \in Fragments(text[i])

isSoftwareContext(text) ==
    \/ Mentions(text, "code") \/ Mentions(text, "software")
    \/ Mentions(text, "programming") \/ Mentions(text, "function")
    \/ Mentions(text, "variable")

LawOfMotion(text) == Includes(text, <<"law", " ", "of", " ", "motion">>)

TopicOfText(text, sourceType) ==
    IF \/ Mentions(text, "newton")
          /\ (Mentions(text, "first") \/ Mentions(text, "1st") \/ Mentions(text, "inertia"))
       \/ LawOfMotion(text) /\ Mentions(text, "first")
    THEN "Newton's First Law of Motion"
    ELSE IF \/ Mentions(text, "newton")
               /\ (\/ Mentions(text, "second") \/ Mentions(text, "2nd")
                   \/ Mentions(text, "f=ma") \/ Includes(text, <<"f", " ", "=", " ", "ma">>))
            \/ LawOfMotion(text) /\ Mentions(text, "second")
    THEN "Newton's Second Law of Motion"
    ELSE IF \/ Mentions(text, "newton")
               /\ (Mentions(text, "third") \/ Mentions(text, "3rd") \/ Mentions(text, "reaction"))
            \/ LawOfMotion(text) /\ Mentions(text, "third")
    THEN "Newton's Third Law of Motion"
    ELSE IF /\ \/ Mentions(text, "physics") \/ Mentions(text, "force")
               \/ Mentions(text, "velocity") \/ Mentions(text, "acceleration")
               \/ Mentions(text, "gravity")
            /\ ~isSoftwareContext(text)
    THEN "Classical Mechanics"
    ELSE IF \/ Mentions(text, "photosynthe")
            \/ Includes(text, <<"photo", " ", "synthesis">>)
            \/ Mentions(text, "plant") /\ Mentions(text, "light") /\ Mentions(text, "energy")
    THEN "Photosynthesis"
    ELSE IF Mentions(text, "mitosis") \/ Includes(text, <<"cell", " ", "division">>)
    THEN "Cell Division (Mitosis)"
    ELSE IF \/ Mentions(text, "database") \/ Mentions(text, "sql") \/ Mentions(text, "mongo")
            \/ Mentions(text, "postgres") \/ Mentions(text, "dbms")
    THEN "Database Systems"
    ELSE IF \/ Mentions(text, "api") \/ Mentions(text, "restful") \/ Mentions(text, "endpoint")
            \/ Mentions(text, "json") /\ Mentions(text, "request")
    THEN "API Development"
    ELSE IF \/ Mentions(text, "react") \/ Mentions(text, "jsx") \/ Mentions(text, "hook")
            \/ Mentions(text, "component")
    THEN "React Development"
    ELSE IF sourceType = "log" \/ sourceType = "api" THEN "System Logs"
    ELSE IF sourceType = "chat" THEN "Chat History"
    ELSE "General Unclassified"

extractCanonicalTopic(content, sourceType) == TopicOfText(ToLowerCase(content), sourceType)

\* record.structured_content || record.raw_content || ""
ContentToAnalyze(record) ==
    IF Truthy(record.structured_content) THEN Get(record.structured_content)
    ELSE IF Truthy(record.raw_content) THEN Get(record.raw_content)
         ELSE << >>

\* records.find(r => r.source_type === 'pdf'): None when there is none
FindPdfAnchor(recs) ==
    IF \E i \in 1..Len(recs) : recs[i].source_type = "pdf"
    THEN Some(recs[CHOOSE i \in 1..Len(recs) :
                     /\ recs[i].source_type = "pdf"
                     /\ \A j \in 1..(i - 1) : recs[j].source_type # "pdf"])
    ELSE None

\* faulty variant: api and chat records keep a topic of their own
LinkOne_OwnTopic(record, found) ==
    IF IsSome(found) /\ record.source_type \notin {"api", "chat"}
    THEN [record EXCEPT !.topic = Get(found)[1], !.group_id = Get(found)[2]]
    ELSE [record EXCEPT
            !.topic = extractCanonicalTopic(ContentToAnalyze(record), record.source_type),
            !.group_id = GroupIdOf(extractCanonicalTopic(ContentToAnalyze(record),
                                                         record.source_type))]

\* faulty variant: without a document in the batch the record is returned as it came
LinkOne_AnchorOnly(record, found) ==
    IF IsSome(found) /\ Get(found)[1] # "" /\ Get(found)[2] # ""
    THEN [record EXCEPT !.topic = Get(found)[1], !.group_id = Get(found)[2]]
    ELSE record

\* the body of records.map(...): anchor is None or <<<<anchorTopic, anchorGroupId>>>>
LinkOne(record, found) ==
    IF IsSome(found) /\ Get(found)[1] # "" /\ Get(found)[2] # ""
    THEN [record EXCEPT !.topic = Get(found)[1], !.group_id = Get(found)[2]]
    ELSE [record EXCEPT
            !.topic = extractCanonicalTopic(ContentToAnalyze(record), record.source_type),
            !.group_id = GroupIdOf(extractCanonicalTopic(ContentToAnalyze(record),
                                                         record.source_type))]

\* lines 299-311: anchorTopic and anchorGroupId
AnchorOf(pdfAnchor) ==
    IF IsSome(pdfAnchor)
    THEN Some(<<extractCanonicalTopic(ContentToAnalyze(Get(pdfAnchor)), "pdf"),
                GroupIdOf(extractCanonicalTopic(ContentToAnalyze(Get(pdfAnchor)), "pdf"))>>)
    ELSE None

---------------------------------------------------------------------------
(* cleaner.ts: cleanUnifiedData *)

\* fixes_applied[key] = (fixes_applied[key] || 0) + 1
incrementStat(fixes, key) ==
    IF key \in DOMAIN fixes THEN [fixes EXCEPT ![key] = @ + 1] ELSE fixes @@ (key :> 1)

\* the content being cleaned and the counters
CleanState(content, fixes) == [content |-> content, fixes |-> fixes]

\* if (pattern.test(content)) { content = content.replace(pattern, ..).trim(); incrementStat(key) }
ReplacedAndTrimmed(cs, replaced, key) ==
    IF replaced # cs.content
    THEN CleanState(Trim(replaced), incrementStat(cs.fixes, key))
    ELSE cs

\* if (pattern.test(content)) { content = content.replace(pattern, ..); incrementStat(key) }
Replaced(cs, replaced, key) ==
    IF replaced # cs.content
    THEN CleanState(replaced, incrementStat(cs.fixes, key))
    ELSE cs

IsDigits(tok) == tok \in {"1", "3", "12"}

\* the number of white-space tokens at the head of the text
RECURSIVE WsRun(_)
WsRun(text) ==
    IF text # << >> /\ Head(text) \in WhiteSpace THEN 1 + WsRun(Tail(text)) ELSE 0

Drop(text, n) == SubSeq(text, n + 1, Len(text))

\* (CHAPTER|SECTION|PART|PAGE|MODULE|UNIT)\s+\d+ at the head: tokens matched, or 0
HeaderLen(text) ==
    IF /\ text # << >>
       /\ LowerTok(Head(text)) \in {"chapter", "section", "part", "page", "module", "unit"}
       /\ WsRun(Tail(text)) >= 1
       /\ Len(text) >= WsRun(Tail(text)) + 2
       /\ IsDigits(text[WsRun(Tail(text)) + 2])
    THEN WsRun(Tail(text)) + 2
    ELSE 0

\* replace(patterns.headers, ' '): a match starts the string or follows a line feed
RECURSIVE RemoveHeaders(_, _)
RemoveHeaders(text, atStart) ==
    IF text = << >> THEN << >>
    ELSE IF atStart /\ HeaderLen(text) > 0
         THEN <<" ">> \o RemoveHeaders(Drop(text, HeaderLen(text)), FALSE)
         ELSE IF Head(text) = "\n" /\ HeaderLen(Tail(text)) > 0
              THEN <<" ">> \o RemoveHeaders(Drop(text, 1 + HeaderLen(Tail(text))), FALSE)
              ELSE <<Head(text)>> \o RemoveHeaders(Tail(text), FALSE)

\* \d+\s*\|\s*Page | Page\s*\d+ | ^\d+$ at the head of a line: tokens matched, or 0
PageMarkerLen(text) ==
    IF text = << >> THEN 0
    ELSE IF /\ IsDigits(Head(text))
            /\ Len(text) >= WsRun(Tail(text)) + 2
            /\ text[WsRun(Tail(text)) + 2] = "|"
            /\ Len(text) >= WsRun(Tail(text)) + WsRun(Drop(text, WsRun(Tail(text)) + 2)) + 3
            /\ LowerTok(text[WsRun(Tail(text)) + WsRun(Drop(text, WsRun(Tail(text)) + 2)) + 3])
                 = "page"
    THEN WsRun(Tail(text)) + WsRun(Drop(text, WsRun(Tail(text)) + 2)) + 3
    ELSE IF /\ LowerTok(Head(text)) = "page"
            /\ Len(text) >= WsRun(Tail(text)) + 2
            /\ IsDigits(text[WsRun(Tail(text)) + 2])
    THEN WsRun(Tail(text)) + 2
    ELSE IF IsDigits(Head(text)) /\ (Len(text) = 1 \/ text[2] = "\n")
    THEN 1
    ELSE 0

\* replace(patterns.pageMarkers, ' '): a match starts a line; the line feed before
\* it, if any, is part of the match
RECURSIVE RemovePageMarkers(_, _)
RemovePageMarkers(text, atStart) ==
    IF text = << >> THEN << >>
    ELSE IF atStart /\ PageMarkerLen(text) > 0
         THEN <<" ">> \o RemovePageMarkers(Drop(text, PageMarkerLen(text)), FALSE)
         ELSE IF Head(text) = "\n" /\ PageMarkerLen(Tail(text)) > 0
              THEN <<" ">> \o RemovePageMarkers(Drop(text, 1 + PageMarkerLen(Tail(text))), FALSE)
              ELSE <<Head(text)>> \o RemovePageMarkers(Tail(text), FALSE)

\* \b\d{1,2}:\d{2}(:\d{2})?\b
IsTimestamp(tok) == tok \in {"12:30", "1:05:09"}

RECURSIVE RemoveTimestamps(_)
RemoveTimestamps(text) ==
    IF text = << >> THEN << >>
    ELSE <<IF IsTimestamp(Head(text)) THEN " " ELSE Head(text)>> \o RemoveTimestamps(Tail(text))

\* the two-word alternatives of patterns.fillers
IsFillerPair(a, b) ==
    <<LowerTok(a), LowerTok(b)>> \in
        {<<"you", "know">>, <<"sort", "of">>, <<"kind", "of">>, <<"i", "mean">>}

IsFiller(tok) ==
    LowerTok(tok) \in {"um", "uh", "er", "ah", "like", "actually", "basically", "literally",
                       "right", "okay", "so"}

RECURSIVE RemoveFillers(_)
RemoveFillers(text) ==
    IF text = << >> THEN << >>
    ELSE IF Len(text) >= 3 /\ text[2] = " " /\ IsFillerPair(text[1], text[3])
         THEN <<" ">> \o RemoveFillers(Drop(text, 3))
         ELSE <<IF IsFiller(Head(text)) THEN " " ELSE Head(text)>> \o RemoveFillers(Tail(text))

\* patterns.ocrFixes: <<word, case-insensitive, replacement>>
ocrFixes ==
    << <<"ph0tosynthes1s", TRUE, "Photosynthesis">>, <<"rn", FALSE, "m">>,
       <<"1", FALSE, "I">>, <<"l", FALSE, "I">>, <<"vv", FALSE, "w">>,
       <<"teh", TRUE, "the">>, <<"w1th", TRUE, "with">>, <<"dat4", TRUE, "data">> >>

OcrReplace(text, fix) ==
    [i \in 1..Len(text) |->
       IF (IF fix[2] THEN LowerTok(text[i]) ELSE text[i]) = fix[1] THEN fix[3] ELSE text[i]]

RECURSIVE FixOcr(_, _)
FixOcr(cs, fixes) ==
    IF fixes = << >> THEN cs
    ELSE Bind(Replaced(cs, OcrReplace(cs.content, Head(fixes)), "ocr_errors_fixed"),
              LAMBDA next : FixOcr(next, Tail(fixes)))

\* patterns.abbreviations in insertion order: <<abbreviation, expansion>>
abbreviations ==
    << <<"co2", <<"carbon", " ", "dioxide">> >>, <<"h2o", <<"water">> >>,
       <<"w/", <<"with">> >>, <<"w/o", <<"without">> >>, <<"vs", <<"versus">> >>,
       <<"etc", <<"et", " ", "cetera">> >>, <<"e.g.", <<"for", " ", "example">> >>,
       <<"i.e.", <<"that", " ", "is">> >>, <<"approx.", <<"approximately">> >> >>

\* what replace(new RegExp(`\\b${abbr}\\b`, 'gi'), expansion) makes of one word: an
\* abbreviation that ends in '.' or '/' has no word boundary after it unless a
\* letter follows, so 'w/' rewrites the head of "w/o" and a free-standing "e.g."
\* is left alone
AbbrRewrite(tok, abbr) ==
    IF abbr[1] \in {"co2", "h2o", "w/o", "vs", "etc"} /\ LowerTok(tok) = abbr[1]
    THEN abbr[2]
    ELSE IF abbr[1] = "w/" /\ LowerTok(tok) = "w/o" THEN <<"witho">>
         ELSE <<tok>>

RECURSIVE AbbrReplace(_, _)
AbbrReplace(text, abbr) ==
    IF text = << >> THEN << >>
    ELSE AbbrRewrite(Head(text), abbr) \o AbbrReplace(Tail(text), abbr)

RECURSIVE ExpandAbbreviations(_, _)
ExpandAbbreviations(cs, abbrs) ==
    IF abbrs = << >> THEN cs
    ELSE Bind(Replaced(cs, AbbrReplace(cs.content, Head(abbrs)), "abbreviations_expanded"),
              LAMBDA next : ExpandAbbreviations(next, Tail(abbrs)))

\* replace(/(^\s*\w|[\.\?!]\s*\w)/g, c => c.toUpperCase()); after is TRUE at the
\* start of the string and behind '.', '?' or '!' until a word has been seen
RECURSIVE Capitalize(_, _)
Capitalize(text, after) ==
    IF text = << >> THEN << >>
    ELSE IF Head(text) \in WhiteSpace
         THEN <<Head(text)>> \o Capitalize(Tail(text), after)
         ELSE <<IF after /\ StartsWithWordChar(Head(text))
                THEN UpperFirst(UpperInside(Head(text))) ELSE UpperInside(Head(text))>>
              \o Capitalize(Tail(text), EndsSentence(Head(text)))

\* content.charAt(0).toUpperCase() + content.slice(1).toLowerCase()
Unshout(text) ==
    [i \in 1..Len(text) |-> IF i = 1 THEN UpperFirst(LowerTok(text[1])) ELSE LowerTok(text[i])]

\* lines 472-478
ShoutingFixed(cs, capitalized) ==
    IF capitalized = ToUpperCase(capitalized) /\ Length(capitalized) > ShoutMinLen
    THEN CleanState(Unshout(capitalized), incrementStat(cs.fixes, "shouting_fixed"))
    ELSE CleanState(capitalized, cs.fixes)

FixCasing(cs) ==
    IF cs.content # << >> THEN ShoutingFixed(cs, Capitalize(cs.content, TRUE)) ELSE cs

\* replace(/\s{2,}/g, ' ')
RECURSIVE CollapseSpaces(_)
CollapseSpaces(text) ==
    IF text = << >> THEN << >>
    ELSE IF WsRun(text) >= 2 THEN <<" ">> \o CollapseSpaces(Drop(text, WsRun(text)))
         ELSE <<Head(text)>> \o CollapseSpaces(Tail(text))

Step1(cs) == ReplacedAndTrimmed(cs, RemoveHeaders(cs.content, TRUE), "headers_removed")

Step2(cs) ==
    ReplacedAndTrimmed(cs, RemovePageMarkers(cs.content, TRUE), "page_markers_removed")

Step3(cs) ==
    ReplacedAndTrimmed(cs, RemoveTimestamps(cs.content), "timestamps_removed_from_text")

Step4(cs) == ReplacedAndTrimmed(cs, RemoveFillers(cs.content), "filler_words_removed")

Step5(cs, sourceType) == IF sourceType \in {"pdf", "image"} THEN FixOcr(cs, ocrFixes) ELSE cs

Step6(cs) == ExpandAbbreviations(cs, abbreviations)

Step8(cs) == ReplacedAndTrimmed(cs, CollapseSpaces(cs.content), "spacing_fixed")

\* faulty variant: the text cleaning runs on every source type
CleanText_AllTypes(record, fixes) ==
    Bind(Step4(Step3(Step2(Step1(
           CleanState(IF Truthy(record.structured_content)
                      THEN Get(record.structured_content) ELSE << >>, fixes))))),
         LAMBDA cs4 : Bind(Step6(Step5(cs4, record.source_type)),
                           LAMBDA cs6 : Step8(FixCasing(cs6))))

\* lines 439-482: the content and the counters after the text cleaning of one record
CleanText(record, fixes) ==
    IF record.source_type \in {"api", "csv", "log", "json"}
    THEN CleanState(IF Truthy(record.structured_content)
                    THEN Get(record.structured_content) ELSE << >>, fixes)
    ELSE Bind(Step4(Step3(Step2(Step1(
                CleanState(IF Truthy(record.structured_content)
                           THEN Get(record.structured_content) ELSE << >>, fixes))))),
              LAMBDA cs4 : Bind(Step6(Step5(cs4, record.source_type)),
                                LAMBDA cs6 : Step8(FixCasing(cs6))))

\* `${record.source_type}:${content.toLowerCase().trim()}:${record.group_id}`
Signature(record, content) == <<record.source_type, Trim(ToLowerCase(content)), record.group_id>>

\* the state of the forEach loop of cleanUnifiedData
TextPhase(recs, dropped, fixes, seen) ==
    [cleanedTextRecords |-> recs, dropped_records |-> dropped, fixes_applied |-> fixes,
     seenContent |-> seen]

\* faulty variant: a duplicate is dropped without being counted in dropped_records
Deduplicate_Uncounted(ph, record, cs) ==
    IF Signature(record, cs.content) \in ph.seenContent
    THEN TextPhase(ph.cleanedTextRecords, ph.dropped_records,
                   incrementStat(cs.fixes, "duplicates_removed"), ph.seenContent)
    ELSE TextPhase(Append(ph.cleanedTextRecords,
                          [record EXCEPT !.structured_content = Some(cs.content)]),
                   ph.dropped_records, cs.fixes,
                   ph.seenContent \cup {Signature(record, cs.content)})

\* lines 484-497: the duplicate check on the cleaned content
Deduplicate(ph, record, cs) ==
    IF Signature(record, cs.content) \in ph.seenContent
    THEN TextPhase(ph.cleanedTextRecords, ph.dropped_records + 1,
                   incrementStat(cs.fixes, "duplicates_removed"), ph.seenContent)
    ELSE TextPhase(Append(ph.cleanedTextRecords,
                          [record EXCEPT !.structured_content = Some(cs.content)]),
                   ph.dropped_records, cs.fixes,
                   ph.seenContent \cup {Signature(record, cs.content)})

\* one call of the forEach callback (lines 438-497)
CleanOne(ph, record) == Deduplicate(ph, record, CleanText(record, ph.fixes_applied))

\* faulty variant: every cleaned record is returned, whatever the batch validator said
Finish_Ungated(initial_records, ph, batchResult) ==
    [cleanedRecords |-> ph.cleanedTextRecords,
     validated |-> batchResult.validated,
     stats |-> [initial_records |-> initial_records,
                records_after_validation |-> batchResult.summary.total,
                records_after_cleaning |-> Len(ph.cleanedTextRecords),
                records_with_critical_errors |-> batchResult.summary.failed,
                records_with_warnings |-> batchResult.summary.warnings,
                dropped_records |-> ph.dropped_records + batchResult.summary.failed,
                fixes_applied |->
                  [k \in DOMAIN ph.fixes_applied \cup {"validation_passed"} |->
                     IF k = "validation_passed" THEN batchResult.summary.success
                     ELSE ph.fixes_applied[k]]]]

\* lines 503-521: the value cleanUnifiedData returns, with the ids the batch
\* validator handed to validateRecord
\* faulty variant: the records the batch validator failed are not counted as dropped
Finish_DuplicatesOnly(initial_records, ph, batchResult) ==
    [cleanedRecords |-> batchResult.successful_records,
     validated |-> batchResult.validated,
     stats |-> [initial_records |-> initial_records,
                records_after_validation |-> batchResult.summary.total,
                records_after_cleaning |-> Len(batchResult.successful_records),
                records_with_critical_errors |-> batchResult.summary.failed,
                records_with_warnings |-> batchResult.summary.warnings,
                dropped_records |-> ph.dropped_records,
                fixes_applied |->
                  [k \in DOMAIN ph.fixes_applied \cup {"validation_passed"} |->
                     IF k = "validation_passed" THEN batchResult.summary.success
                     ELSE ph.fixes_applied[k]]]]

Finish(initial_records, ph, batchResult) ==
    [cleanedRecords |-> batchResult.successful_records,
     validated |-> batchResult.validated,
     stats |-> [initial_records |-> initial_records,
                records_after_validation |-> batchResult.summary.total,
                records_after_cleaning |-> Len(batchResult.successful_records),
                records_with_critical_errors |-> batchResult.summary.failed,
                records_with_warnings |-> batchResult.summary.warnings,
                dropped_records |-> ph.dropped_records + batchResult.summary.failed,
                fixes_applied |->
                  [k \in DOMAIN ph.fixes_applied \cup {"validation_passed"} |->
                     IF k = "validation_passed" THEN batchResult.summary.success
                     ELSE ph.fixes_applied[k]]]]

---------------------------------------------------------------------------
(* cleaner.ts: cleanUnifiedData, the earlier version with the metadata
   enrichment (lines 5-196).  There metadata is a function from the keys that
   are present to their values. *)

\* lines 58-131: the cleaning steps run on every source type; only the
\* timestamps of api and log records are kept
LegacyCleanText(record) ==
    Bind(Step2(Step1(CleanState(IF Truthy(record.structured_content)
                                THEN Get(record.structured_content) ELSE << >>, << >>))),
         LAMBDA cs2 :
           Bind(Step4(IF record.source_type \in {"api", "log"} THEN cs2 ELSE Step3(cs2)),
                LAMBDA cs4 : Bind(Step6(Step5(cs4, record.source_type)),
                                  LAMBDA cs6 : Step8(FixCasing(cs6)))))

\* metadata[key] || fallback
OrElse(metadata, key, fallback) ==
    IF key \in DOMAIN metadata /\ metadata[key] # "" THEN metadata[key] ELSE fallback

\* metadata[key] = value
WithKey(metadata, key, value) ==
    [k \in DOMAIN metadata \cup {key} |-> IF k = key THEN value ELSE metadata[k]]

\* (\d+|[A-Z]+), case-insensitive, at the head of a word: the run of digits or of
\* letters the word begins with
Capture(tok) ==
    IF IsDigits(tok) \/ tok \in {"Plants", "use", "light", "error", "warning"}
    THEN Some(tok) ELSE None

\* originalContent.match(/(?:Section|Part|Chapter)\s+(\d+|[A-Z]+)/i): the capture
\* of the first match, if any
RECURSIVE SectionMatch(_)
SectionMatch(text) ==
    IF Len(text) < 3 THEN None
    ELSE IF /\ LowerTok(text[1]) \in {"section", "part", "chapter"}
            /\ WsRun(Tail(text)) >= 1
            /\ Len(text) >= WsRun(Tail(text)) + 2
            /\ IsSome(Capture(text[WsRun(Tail(text)) + 2]))
         THEN Capture(text[WsRun(Tail(text)) + 2])
         ELSE SectionMatch(Tail(text))

\* lines 138-145
EnrichPdf(metadata, sectionMatch) ==
    Bind(WithKey(WithKey(metadata, "file_name", OrElse(metadata, "file_name", "unknown.pdf")),
                 "page", OrElse(metadata, "page", "1")),
         LAMBDA md :
           WithKey(md, "section",
                   IF IsSome(sectionMatch) THEN "Section " \o Get(sectionMatch)
                   ELSE OrElse(md, "section", "")))

\* lines 146-154
EnrichAudio(metadata) ==
    Bind(WithKey(WithKey(metadata, "file_name", OrElse(metadata, "file_name", "audio_recording")),
                 "speaker", OrElse(metadata, "speaker", "teacher")),
         LAMBDA md :
           IF OrElse(md, "timestamp_range", "") = ""
           THEN WithKey(md, "timestamp_range", OrElse(md, "timestamp", "00:00:00"))
           ELSE md)

\* lines 159-164
EventType(content) ==
    IF Includes(ToLowerCase(content), <<"error">>) THEN "error"
    ELSE IF Includes(ToLowerCase(content), <<"warning">>) THEN "warning"
    ELSE IF Includes(content, <<"?">>) THEN "question"
    ELSE "message"

\* lines 155-165
EnrichApi(metadata, content) ==
    Bind(WithKey(metadata, "user_id", OrElse(metadata, "user_id", "anonymous_user")),
         LAMBDA md :
           IF OrElse(md, "event_type", "") = ""
           THEN WithKey(md, "event_type", EventType(content))
           ELSE md)

\* lines 136-165: enrichedMetadata, built on a copy of record.metadata
enrichedMetadata(record, content) ==
    CASE record.source_type = "pdf" ->
           EnrichPdf(record.metadata,
                     SectionMatch(IF Truthy(record.structured_content)
                                  THEN Get(record.structured_content) ELSE << >>))
      [] record.source_type = "audio" -> EnrichAudio(record.metadata)
      [] record.source_type \in {"api", "chat"} -> EnrichApi(record.metadata, content)
      [] OTHER -> record.metadata

\* lines 186-190: the record pushed to cleanedRecords
LegacyCleaned(record) ==
    Bind(LegacyCleanText(record).content,
         LAMBDA content :
           [record EXCEPT !.structured_content = Some(content),
                          !.metadata = enrichedMetadata(record, content)])

---------------------------------------------------------------------------
(* Tabular values: null, undefined, a string (token text) or a number, which is
   kept as the text String(value) gives *)

Null == [t |-> "null", v |-> << >>]

Undefined == [t |-> "undefined", v |-> << >>]

Str(text) == [t |-> "str", v |-> text]

Num(n) == [t |-> "num", v |-> <<ToString(n)>>]

\* value === null || value === undefined
IsNullish(value) == value.t \in {"null", "undefined"}

\* String(value) of a value that is not nullish
String(value) == value.v

\* the keys of an object held as a sequence of <<key, value>> pairs
Keys(obj) == [i \in 1..Len(obj) |-> obj[i][1]]

HasProp(obj, key) == \E i \in 1..Len(obj) : obj[i][1] = key

\* obj[key] of a key that is present; the last assignment wins
Prop(obj, key) ==
    obj[CHOOSE i \in 1..Len(obj) :
          obj[i][1] = key /\ \A j \in (i + 1)..Len(obj) : obj[j][1] # key][2]

\* the words of the contact columns that hold an '@'
AtWords == {"John@EXAMPLE.com", "john@example.com", "John@Example", "john@example"}

\* the words that match [^\s@]+@[^\s@]+\.[^\s@]+ as a whole
EmailWords == {"John@EXAMPLE.com", "john@example.com"}

\* strVal.includes('@')
IncludesAt(text) == \E i \in 1..Len(text) : text[i] \in AtWords

\* /^[^\s@]+@[^\s@]+\.[^\s@]+$/.test(text): no white space, one '@', a dot after it
EmailRegex(text) == Len(text) = 1 /\ text[1] \in EmailWords

\* the words of the sheets and samples without a digit
DigitFreeWords ==
    {"not-an-email", "john@example.com", "John@EXAMPLE.com", "yes", "no", "Alice", "Bob",
     "red", "the", "quick", "brown", "fox", "jumps"}

\* the digits of a word of the sheets and samples, in order
DigitsOfWord(tok) ==
    CASE tok \in WhiteSpace \cup DigitFreeWords -> ""
      [] tok = "12-34" -> "1234"
      [] tok = "555-123-4567" -> "5551234567"
      [] tok = "5551234567" -> "5551234567"
      [] tok = "2024-01-15" -> "20240115"
      [] tok = "2024-13-45" -> "20241345"
      [] tok = "ABC-001" -> "001"
      [] tok = "ABC-002" -> "002"
      [] tok = "$5" -> "5"
      [] \E n \in 0..150 : ToString(n) = tok -> tok

\* strVal.replace(/\D/g, '')
StripNonDigits(text) ==
    Bind(Join([i \in 1..Len(text) |-> DigitsOfWord(text[i])]),
         LAMBDA digits : IF digits = "" THEN << >> ELSE <<digits>>)

---------------------------------------------------------------------------
(* validator.ts: validateData, addIssue.  The loops over the rows are written as
   comprehensions over the row numbers: what a loop has accumulated when it
   reaches row i is what the rows before i put there. *)

Indices(n) == [i \in 1..n |-> i]

Cell(row, col) == IF col \in DOMAIN row THEN row[col] ELSE Undefined

\* lines 56-67: value === null || value === undefined || value === ''
IsMissing(value) == IsNullish(value) \/ value = Str(<< >>)

\* uniqueSets[col] when the pass reaches row i: the trimmed text of every value of
\* the column that was present in an earlier row
uniqueSets(rows, col, i) ==
    { Trim(String(Cell(rows[j], col))) :
        j \in { h \in 1..(i - 1) : ~IsMissing(Cell(rows[h], col)) } }

Issue(rowIndex, col, val, msg, sev, type) ==
    [row |-> rowIndex + 1, column |-> col, value |-> val, message |-> msg,
     severity |-> sev, type |-> type]

\* the numbers the values of the sheets stand for
AmountRange == (0 - 150)..150

\* Number(text) of a trimmed text: '' is 0, a decimal numeral is its value, anything
\* else is NaN (None)
NumberOfText(text) ==
    IF text = << >> THEN Some(0)
    ELSE IF Len(text) = 1 /\ \E n \in AmountRange : ToString(n) = text[1]
         THEN Some(CHOOSE n \in AmountRange : ToString(n) = text[1])
         ELSE None

\* Number(value): null is 0, undefined is NaN, a string is read after trimming
Number(value) ==
    IF value.t = "null" THEN Some(0)
    ELSE IF value.t = "undefined" THEN None
    ELSE NumberOfText(Trim(value.v))

\* lines 129-148, case 'contact_info': an '@' asks for the shape of an address, a
\* digit for 7 to 15 digits
CheckContact(i, col, value, strVal) ==
    IF IncludesAt(strVal)
    THEN IF ~EmailRegex(strVal)
         THEN Some(Issue(i - 1, col, value, "Invalid email format", "critical", "format"))
         ELSE None
    ELSE IF /\ StripNonDigits(strVal) # << >>
            /\ \/ Length(StripNonDigits(strVal)) < PhoneMinDigits
               \/ Length(StripNonDigits(strVal)) > PhoneMaxDigits
         THEN Some(Issue(i - 1, col, value, "Suspicious phone number length",
                         "warning", "format"))
         ELSE None

\* lines 49-187 for the cell of row i (from 1) in column col: the issue it raises,
\* if any; columns typed categorical or free_text raise none on the short,
\* printable values of the sheets below
CheckValue(rows, i, col, type) ==
    IF IsMissing(Cell(rows[i], col))
    THEN IF type = "identifier"
         THEN Some(Issue(i - 1, col, Cell(rows[i], col), "Identifier cannot be null",
                         "critical", "required"))
         ELSE None
    ELSE IF type = "identifier"
         THEN IF Trim(String(Cell(rows[i], col))) \in uniqueSets(rows, col, i)
              THEN Some(Issue(i - 1, col, Cell(rows[i], col), "Duplicate identifier",
                              "critical", "duplicate"))
              ELSE None
         ELSE IF type = "numeric_amount"
         THEN IF ~IsSome(NumberOfText(Trim(String(Cell(rows[i], col)))))
              THEN Some(Issue(i - 1, col, Cell(rows[i], col), "Invalid numeric value",
                              "critical", "type"))
              ELSE IF Get(NumberOfText(Trim(String(Cell(rows[i], col))))) < 0
              THEN Some(Issue(i - 1, col, Cell(rows[i], col), "Negative value detected",
                              "warning", "range"))
              ELSE None
         ELSE IF type = "contact_info"
         THEN CheckContact(i, col, Cell(rows[i], col), Trim(String(Cell(rows[i], col))))
         ELSE None

\* the cells <<row, column>> in the order data.forEach / columns.forEach visits them
Cells(n, m) == [k \in 1..(n * m) |-> <<((k - 1) \div m) + 1, ((k - 1) % m) + 1>>]

\* the cells that call addIssue, in call order
Raising(rows, sm) ==
    SelectSeq(Cells(Len(rows), Len(sm)),
              LAMBDA c : IsSome(CheckValue(rows, c[1], sm[c[2]][1], sm[c[2]][2])))

\* faulty variant: every call adds its issue
addIssue_Uncapped(raising, rows, sm) ==
    [k \in 1..Len(raising) |->
       Get(CheckValue(rows, raising[k][1], sm[raising[k][2]][1], sm[raising[k][2]][2]))]

\* addIssue: a call made when issues.length >= 1000 adds nothing
addIssue(raising, rows, sm) ==
    [k \in 1..(IF Len(raising) < IssueCap THEN Len(raising) ELSE IssueCap) |->
       Get(CheckValue(rows, raising[k][1], sm[raising[k][2]][1], sm[raising[k][2]][2]))]

\* issues.slice(0, 100)
Slice(issues, limit) == SubSeq(issues, 1, IF Len(issues) < limit THEN Len(issues) ELSE limit)

\* every issue the value-level pass raises, capped or not, in call order
Findings(raising, rows, sm) ==
    [k \in 1..Len(raising) |->
       Get(CheckValue(rows, raising[k][1], sm[raising[k][2]][1], sm[raising[k][2]][2]))]

\* numericValues[col]: the numbers the value-level pass pushed, in row order
numericValues(rows, col) ==
    Bind(SelectSeq(Indices(Len(rows)),
                   LAMBDA i : /\ ~IsMissing(Cell(rows[i], col))
                              /\ IsSome(NumberOfText(Trim(String(Cell(rows[i], col)))))),
         LAMBDA at : [k \in 1..Len(at) |->
                        Get(NumberOfText(Trim(String(Cell(rows[at[k]], col)))))])

\* values.sort((a, b) => a - b)
Sorted(values) ==
    [k \in 1..Len(values) |->
       CHOOSE v \in Range(values) :
         /\ Cardinality({ j \in 1..Len(values) : values[j] < v }) < k
         /\ k <= Cardinality({ j \in 1..Len(values) : values[j] <= v })]

\* lines 197-201, with the bounds doubled to stay in the integers:
\* q1 - 1.5 * iqr and q3 + 1.5 * iqr
Fences(sorted) ==
    [lower2 |-> 2 * sorted[(Len(sorted) \div 4) + 1]
                  - 3 * (sorted[((3 * Len(sorted)) \div 4) + 1] - sorted[(Len(sorted) \div 4) + 1]),
     upper2 |-> 2 * sorted[((3 * Len(sorted)) \div 4) + 1]
                  + 3 * (sorted[((3 * Len(sorted)) \div 4) + 1] - sorted[(Len(sorted) \div 4) + 1])]

\* toFixed(2) of half a whole number
ToFixed2(doubled) ==
    (IF doubled < 0 THEN "-" ELSE "")
      \o ToString((IF doubled < 0 THEN 0 - doubled ELSE doubled) \div 2)
      \o (IF doubled % 2 = 0 THEN ".00" ELSE ".50")

\* lines 204-208: the rows whose raw value, read by Number, lies outside the bounds
OutlierRows(rows, col, fences) ==
    SelectSeq(Indices(Len(rows)),
              LAMBDA i : /\ IsSome(Number(Cell(rows[i], col)))
                         /\ \/ 2 * Get(Number(Cell(rows[i], col))) < fences.lower2
                            \/ 2 * Get(Number(Cell(rows[i], col))) > fences.upper2)

OutlierIssuesAt(rows, col, fences, at) ==
    [k \in 1..Len(at) |->
       Issue(at[k] - 1, col, Cell(rows[at[k]], col),
             "Outlier detected (Range: " \o ToFixed2(fences.lower2) \o " - "
               \o ToFixed2(fences.upper2) \o ")",
             "warning", "range")]

\* lines 192-217 for one numeric column: the outlier issues, in row order
OutlierIssues(rows, col) ==
    Bind(numericValues(rows, col),
         LAMBDA values :
           IF Len(values) < MinOutlierValues THEN << >>
           ELSE Bind(Fences(Sorted(values)),
                     LAMBDA fences :
                       OutlierIssuesAt(rows, col, fences, OutlierRows(rows, col, fences))))

\* Object.entries(numericValues).forEach: the outlier issues of all numeric columns
RECURSIVE Outliers(_, _)
Outliers(rows, sm) ==
    IF sm = << >> THEN << >>
    ELSE (IF Head(sm)[2] = "numeric_amount" THEN OutlierIssues(rows, Head(sm)[1]) ELSE << >>)
           \o Outliers(rows, Tail(sm))

\* the issues array after the calls of addIssue for the outliers
AddOutliers(issues, outliers) ==
    issues \o SubSeq(outliers, 1,
                     IF Len(issues) + Len(outliers) <= IssueCap THEN Len(outliers)
                     ELSE IssueCap - Len(issues))

CountIn(found, col, sev) ==
    Cardinality({ k \in 1..Len(found) : found[k].column = col /\ found[k].severity = sev })

\* validRatio * 100 - warningRatio * 50 is, exactly, a whole number and a half
AtHalf(valid, warnings, total) ==
    /\ total > 0
    /\ 100 * valid - 50 * warnings > 0
    /\ 100 * valid - 50 * warnings < 100 * total
    /\ (2 * (100 * valid - 50 * warnings)) % (2 * total) = total

\* lines 221-232: Math.round(Math.max(0, Math.min(100, validRatio * 100 - warningRatio * 50))).
\* The ratios and the products are binary floating-point numbers: where the exact
\* value is a whole number and a half, the computed value is that half, which
\* Math.round rounds up, or falls just below it (11 valid values and 1 warning
\* out of 12 give 87.49999999999999); below says which.
QualityScore(valid, warnings, total, below) ==
    IF total = 0 \/ 100 * valid - 50 * warnings <= 0 THEN 0
    ELSE IF 100 * valid - 50 * warnings >= 100 * total THEN 100
    ELSE IF AtHalf(valid, warnings, total) /\ below
         THEN ((2 * (100 * valid - 50 * warnings) + total) \div (2 * total)) - 1
         ELSE (2 * (100 * valid - 50 * warnings) + total) \div (2 * total)

\* fieldResults[col] at the return, given its counters
FieldOf(col, total, missing, invalid, unfit, warnings, below) ==
    [field |-> col,
     total_values |-> total,
     valid_values |-> total - missing - unfit,
     invalid_values |-> invalid,
     missing_values |-> missing,
     severity_counts |-> [critical |-> invalid, warning |-> warnings, info |-> 0],
     quality_score |-> QualityScore(total - missing - unfit, warnings, total, below)]

\* fieldResults[col], given every value-level finding and every outlier: a value
\* that is present and raises a critical issue is not valid; a missing identifier
\* is invalid as well
FieldResult(rows, col, found, outliers, below) ==
    FieldOf(col, Len(rows),
            Cardinality({ i \in 1..Len(rows) : IsMissing(Cell(rows[i], col)) }),
            CountIn(found, col, "critical"),
            Cardinality({ k \in 1..Len(found) :
                            /\ found[k].column = col
                            /\ found[k].severity = "critical"
                            /\ found[k].type # "required" }),
            CountIn(found, col, "warning") + CountIn(outliers, col, "warning"),
            below)

RECURSIVE Sum(_)
Sum(numbers) == IF numbers = << >> THEN 0 ELSE Head(numbers) + Sum(Tail(numbers))

\* faulty variant: the mean is cut to a whole number, not rounded
DatasetScore_Truncated(fields) ==
    IF fields = << >> THEN 0
    ELSE Sum([k \in 1..Len(fields) |-> fields[k].quality_score]) \div Len(fields)

\* line 239: Math.round(totalFieldScores / columns.length), 0 without columns
DatasetScore(fields) ==
    IF fields = << >> THEN 0
    ELSE (2 * Sum([k \in 1..Len(fields) |-> fields[k].quality_score]) + Len(fields))
           \div (2 * Len(fields))

\* faulty variant: the number of errors is not looked at
Status_ScoreOnly(datasetScore, errorCount, warningCount, rowCount) ==
    IF datasetScore < FailBelow THEN "fail"
    ELSE IF datasetScore < WarnBelow \/ warningCount > 0 THEN "warn"
    ELSE "pass"

\* lines 242-244
Status(datasetScore, errorCount, warningCount, rowCount) ==
    IF datasetScore < FailBelow \/ 10 * errorCount > rowCount THEN "fail"
    ELSE IF datasetScore < WarnBelow \/ warningCount > 0 THEN "warn"
    ELSE "pass"

\* the value-level pass (lines 46-189): the issues array and the two counters
ValuePass(issues, found) ==
    [issues |-> issues,
     found |-> found,
     outliers |-> << >>,
     errorCount |-> Cardinality({ k \in 1..Len(found) : found[k].severity = "critical" }),
     warningCount |-> Cardinality({ k \in 1..Len(found) : found[k].severity = "warning" })]

\* the outlier pass (lines 191-217) on the state the value-level pass left
OutlierPass(pass, outliers) ==
    [pass EXCEPT !.issues = AddOutliers(@, outliers),
                 !.outliers = outliers,
                 !.warningCount = @ + Len(outliers)]

\* lines 219-255, given the field results
ReportWith(rows, pass, fields) ==
    [dataset_quality_score |-> DatasetScore(fields),
     total_records |-> Len(rows),
     processed_records |-> Len(rows),
     error_count |-> pass.errorCount,
     warning_count |-> pass.warningCount,
     validation_status |->
        Status(DatasetScore(fields), pass.errorCount, pass.warningCount, Len(rows)),
     field_validation_results |-> fields,
     issues |-> Slice(pass.issues, ReportLimit)]

\* ValidationReport: field_validation_results is kept as a sequence in column
\* order; belowHalf holds the columns whose computed score falls below an exact half
ValidationReport(rows, sm, pass, belowHalf) ==
    ReportWith(rows, pass,
               [c \in 1..Len(sm) |->
                  FieldResult(rows, sm[c][1], pass.found, pass.outliers,
                              sm[c][1] \in belowHalf)])

\* the columns whose exact score is a whole number and a half
HalfColumns(fields) ==
    { fields[c].field :
        c \in { d \in 1..Len(fields) :
                  AtHalf(fields[d].valid_values, fields[d].severity_counts.warning,
                         fields[d].total_values) } }

validateData(rows, semanticMapping, belowHalf) ==
    Bind(Raising(rows, semanticMapping),
         LAMBDA raising :
           Bind(OutlierPass(ValuePass(addIssue(raising, rows, semanticMapping),
                                      Findings(raising, rows, semanticMapping)),
                            Outliers(rows, semanticMapping)),
                LAMBDA pass : ValidationReport(rows, semanticMapping, pass, belowHalf)))

---------------------------------------------------------------------------
(* cleaner.ts: cleanData *)

\* Object.keys(semanticMapping).filter(col => semanticMapping[col] === 'identifier')
identifierCols(semanticMapping) ==
    Keys(SelectSeq(semanticMapping, LAMBDA e : e[2] = "identifier"))

\* seenIds when the loop reaches row i: the trimmed identifiers of the earlier rows
\* that had one
seenIds(rows, idCols, i) ==
    { Trim(String(Cell(rows[j], idCols[1]))) :
        j \in { h \in 1..(i - 1) :
                  /\ ~IsNullish(Cell(rows[h], idCols[1]))
                  /\ Trim(String(Cell(rows[h], idCols[1]))) # << >> } }

\* faulty variant: the identifier is looked up without trimming
shouldDrop_Untrimmed(rawId, seen) ==
    \/ IsNullish(rawId)
    \/ Trim(String(rawId)) = << >>
    \/ String(rawId) \in seen

\* lines 559-573: shouldDrop for the value of the primary identifier column
shouldDrop(rawId, seen) ==
    \/ IsNullish(rawId)
    \/ Trim(String(rawId)) = << >>
    \/ Trim(String(rawId)) \in seen

\* lines 558-578: the row at position i (from 1) is dropped for its identifier
DroppedForId(rows, idCols, i) ==
    idCols # << >> /\ shouldDrop(Cell(rows[i], idCols[1]), seenIds(rows, idCols, i))

\* lines 586-589, 662-672: a nullish value becomes null; a string of an identifier,
\* categorical or free_text column is trimmed; any other value is kept
CleanValue(value) ==
    IF IsNullish(value) THEN Null
    ELSE IF value.t = "str" THEN Str(Trim(value.v)) ELSE value

\* lines 603-610: the value holds an '@'
CleanEmail(value, emailVal) ==
    IF ~EmailRegex(emailVal) THEN [value |-> Null, fix |-> None]
    ELSE [value |-> Str(emailVal),
          fix |-> IF emailVal # value.v THEN Some("emails_lowercased") ELSE None]

\* lines 611-619: the value holds no '@'
CleanPhone(strVal, digits) ==
    IF Length(digits) < PhoneMinDigits \/ Length(digits) > PhoneMaxDigits
    THEN [value |-> Null, fix |-> None]
    ELSE [value |-> Str(digits),
          fix |-> IF digits # strVal THEN Some("phones_normalized") ELSE None]

\* lines 600-621, case 'contact_info': the cleaned value and the counter incremented
CleanContact(value) ==
    IF value.t # "str" THEN [value |-> value, fix |-> None]
    ELSE IF IncludesAt(Trim(value.v)) THEN CleanEmail(value, ToLowerCase(Trim(value.v)))
         ELSE CleanPhone(Trim(value.v), StripNonDigits(Trim(value.v)))

\* lines 583-672: the cleaning of one value under its semantic type
CleanTyped(value, semanticType) ==
    IF IsNullish(value) THEN [value |-> Null, fix |-> None]
    ELSE IF semanticType = "contact_info" THEN CleanContact(value)
    ELSE [value |-> CleanValue(value),
          fix |-> IF value.t = "str" /\ Trim(value.v) # value.v
                  THEN Some("text_trimmed") ELSE None]

\* semanticMapping[sourceCol] || 'free_text'
SemanticTypeOf(semanticMapping, sourceCol) ==
    IF HasProp(semanticMapping, sourceCol) THEN Prop(semanticMapping, sourceCol)
    ELSE "free_text"

\* lines 581-672: Object.keys(mapping).forEach, building the record field by field;
\* a later source column mapped to the same field overwrites an earlier one
CleanFields(row, mapping, semanticMapping) ==
    [f \in { mapping[k][2] : k \in 1..Len(mapping) } |->
       Bind(mapping[CHOOSE k \in 1..Len(mapping) :
                      /\ mapping[k][2] = f
                      /\ \A l \in (k + 1)..Len(mapping) : mapping[l][2] # f][1],
            LAMBDA sourceCol :
              CleanTyped(Cell(row, sourceCol),
                         SemanticTypeOf(semanticMapping, sourceCol)).value)]

\* the cells whose cleaning calls incrementStat(key)
Fixed(rows, kept, mapping, semanticMapping, key) ==
    { c \in (1..Len(kept)) \X (1..Len(mapping)) :
        CleanTyped(Cell(rows[kept[c[1]]], mapping[c[2]][1]),
                   SemanticTypeOf(semanticMapping, mapping[c[2]][1])).fix = Some(key) }

FixKeys == {"text_trimmed", "emails_lowercased", "phones_normalized"}

\* the state at the end of data.forEach, given the positions (from 1) of the rows
\* dropped; dropped_rows holds their indices (from 0)
RowPhase(rows, kept, mapping, semanticMapping, dropped) ==
    [dropped_rows |-> [k \in 1..Len(dropped) |-> dropped[k] - 1],
     cleaned_data |->
        [k \in 1..Len(kept) |-> CleanFields(rows[kept[k]], mapping, semanticMapping)],
     fixes_applied |->
        IF \A key \in FixKeys : Fixed(rows, kept, mapping, semanticMapping, key) = {}
        THEN << >>
        ELSE [key \in { k \in FixKeys :
                          Fixed(rows, kept, mapping, semanticMapping, k) # {} } |->
                Cardinality(Fixed(rows, kept, mapping, semanticMapping, key))]]

\* lines 554-675: data.forEach
CleanRows(rows, mapping, semanticMapping) ==
    Bind(SelectSeq(Indices(Len(rows)),
                   LAMBDA i : DroppedForId(rows, identifierCols(semanticMapping), i)),
         LAMBDA dropped :
           RowPhase(rows,
                    SelectSeq(Indices(Len(rows)), LAMBDA i : i \notin Range(dropped)),
                    mapping, semanticMapping, dropped))

\* lines 677-684
targetSemanticMapping(mapping, semanticMapping) ==
    [i \in 1..Len(SelectSeq(mapping, LAMBDA m : HasProp(semanticMapping, m[1]))) |->
       <<SelectSeq(mapping, LAMBDA m : HasProp(semanticMapping, m[1]))[i][2],
         Prop(semanticMapping,
              SelectSeq(mapping, LAMBDA m : HasProp(semanticMapping, m[1]))[i][1])>>]

\* lines 689-699: issue.row - 1 for the issues of one severity
RowsWithSeverity(issues, sev) ==
    { issues[k].row - 1 : k \in { j \in 1..Len(issues) : issues[j].severity = sev } }

\* a set of numbers as an ascending sequence
Ascending(S) ==
    [k \in 1..Cardinality(S) |-> CHOOSE m \in S : Cardinality({ x \in S : x < m }) = k - 1]

\* lines 704-709: the numbers of the rows with a critical issue are pushed unless
\* already in dropped_rows, then the array is sorted
MergeDropped(dropped_rows, critical) == Ascending(Range(dropped_rows) \cup critical)

\* cleaned_data.filter((_, idx) => !rowsWithCriticalErrors.has(idx))
FilterRows(rows, critical) ==
    Bind(SelectSeq(Indices(Len(rows)), LAMBDA i : (i - 1) \notin critical),
         LAMBDA left : [k \in 1..Len(left) |-> rows[left[k]]])

\* lines 701-718, given finalCleanedData and the merged dropped_rows
ReportOf(initial_records, ph, finalCleanedData, dropped_rows, issues) ==
    [cleaned_data |-> finalCleanedData,
     dropped_rows |-> dropped_rows,
     stats |->
        [initial_records |-> initial_records,
         records_after_validation |-> initial_records,
         records_after_cleaning |-> Len(finalCleanedData),
         records_with_critical_errors |-> Cardinality(RowsWithSeverity(issues, "critical")),
         records_with_warnings |-> Cardinality(RowsWithSeverity(issues, "warning")),
         dropped_records |-> Len(dropped_rows),
         fixes_applied |-> ph.fixes_applied]]

\* lines 688-718: the CleaningReport
CleaningReport(initial_records, ph, validationReport) ==
    Bind(RowsWithSeverity(validationReport.issues, "critical"),
         LAMBDA rowsWithCriticalErrors :
           ReportOf(initial_records, ph,
                    FilterRows(ph.cleaned_data, rowsWithCriticalErrors),
                    MergeDropped(ph.dropped_rows, rowsWithCriticalErrors),
                    validationReport.issues))

---------------------------------------------------------------------------
(* semantic-mapper.ts: inferSemanticMapping.  A column name is token text: words
   of letters and digits, and single characters of any other kind between them. *)

idTokens ==
    {"id", "uid", "user_id", "customer_id", "client_id", "record_id", "invoice",
     "invoice_id", "order", "order_id", "vin", "vehicle_id", "serial", "serial_number",
     "chassis", "ticket", "case", "mrn", "patient_id"}

nameTokens ==
    {"name", "full_name", "fullname", "first_name", "last_name", "display_name",
     "given_name", "family_name", "company", "organization", "org", "title"}

amountTokens ==
    {"amount", "price", "cost", "salary", "wage", "income", "revenue", "total", "balance",
     "msrp", "ctc", "fee", "payment"}

contactTokens ==
    {"email", "mail", "email_address", "e-mail", "phone", "mobile", "cell", "tel", "contact"}

dateTokens ==
    {"date", "dob", "doj", "joined_at", "created_at", "updated_at", "timestamp", "time", "year"}

categoryHintTokens ==
    {"status", "type", "category", "class", "group", "segment", "color", "make", "model",
     "fuel", "fuel_type", "transmission"}

textTokens ==
    {"description", "notes", "note", "comment", "remarks", "address", "summary", "details",
     "text"}

\* the characters of the column names that are neither a letter nor a digit
NameSeparators == {" ", "_", "-"}

\* tokens(s): lower case, every run of other characters a blank, split at the blanks
tokens(s) == ToLowerCase(SelectSeq(s, LAMBDA tok : tok \notin NameSeparators))

\* tks.some(t => set.has(t))
hasToken(tks, set) == \E i \in 1..Len(tks) : tks[i] \in set

\* typeof v === 'string' and the whole trimmed text has the shape of an address
isEmail(v) == v.t = "str" /\ EmailRegex(Trim(v.v))

\* 10 to 15 digits in String(v)
isPhone(v) ==
    /\ ~IsNullish(v)
    /\ Length(StripNonDigits(String(v))) >= 10
    /\ Length(StripNonDigits(String(v))) <= 15

\* the lower-case words that hold a currency sign or code
CurrencyWords == {"$5", "usd"}

hasCurrency(v) ==
    ~IsNullish(v) /\ \E i \in 1..Len(String(v)) : LowerTok(String(v)[i]) \in CurrencyWords

isNumeric(v) ==
    IF IsNullish(v) \/ v = Str(<< >>) THEN FALSE
    ELSE IF v.t = "num" THEN TRUE
    ELSE Trim(String(v)) # << >> /\ IsSome(NumberOfText(Trim(String(v))))

\* the values of the samples are strings and numbers, none is a boolean
isBooleanish(v) ==
    ToLowerCase(Trim(String(v)))
      \in { <<w>> : w \in {"true", "false", "yes", "no", "y", "n", "0", "1"} }

\* the words that start with four digits, two digits and two digits, or the like
DatePatternWords == {"2024-01-15", "2024-13-45"}

\* the words new Date reads as a date
DateWords == {"2024-01-15"}

isDateish(v) ==
    /\ ~IsNullish(v)
    /\ v # Str(<< >>)
    /\ Len(Trim(String(v))) = 1
    /\ Trim(String(v))[1] \in DatePatternWords
    /\ Trim(String(v))[1] \in DateWords

\* lines 65-75: what the callback measures on the values of one column that are
\* neither null nor undefined nor ''
Measures(vals) ==
    [nonNull |-> Len(vals),
     uniques |-> Cardinality({ String(vals[i]) : i \in 1..Len(vals) }),
     lengths |-> Sum([i \in 1..Len(vals) |-> Length(String(vals[i]))]),
     numeric |-> Len(SelectSeq(vals, isNumeric)),
     boolish |-> Len(SelectSeq(vals, isBooleanish)),
     emails |-> Len(SelectSeq(vals, isEmail)),
     phones |-> Len(SelectSeq(vals, isPhone)),
     dates |-> Len(SelectSeq(vals, isDateish)),
     currencyHit |-> \E i \in 1..Len(vals) : hasCurrency(vals[i])]

\* count / nonNull > tenths / 10, the ratio being 0 when nonNull is 0
RatioAbove(count, nonNull, tenths) == nonNull > 0 /\ 10 * count > tenths * nonNull

\* faulty variant: the name rule is tried before the amount rule
InferType_NameFirst(m, tks) ==
    IF \/ RatioAbove(m.emails, m.nonNull, 5) \/ RatioAbove(m.phones, m.nonNull, 5)
       \/ hasToken(tks, contactTokens)
    THEN "contact_info"
    ELSE IF RatioAbove(m.boolish, m.nonNull, 7) THEN "boolean_flag"
    ELSE IF hasToken(tks, dateTokens) \/ RatioAbove(m.dates, m.nonNull, 6) THEN "date"
    ELSE IF \/ RatioAbove(m.uniques, m.nonNull, 9) /\ m.lengths >= 6 * m.nonNull
            \/ hasToken(tks, idTokens)
    THEN "identifier"
    ELSE IF hasToken(tks, nameTokens) THEN "name"
    ELSE IF /\ RatioAbove(m.numeric, m.nonNull, 7)
            /\ (m.currencyHit \/ hasToken(tks, amountTokens))
    THEN "numeric_amount"
    ELSE IF hasToken(tks, textTokens) \/ m.lengths > 20 * m.nonNull THEN "free_text"
    ELSE IF \/ hasToken(tks, categoryHintTokens)
            \/ m.nonNull = 0 \/ 10 * m.uniques < 2 * m.nonNull
    THEN "categorical"
    ELSE IF RatioAbove(m.numeric, m.nonNull, 7) THEN "numeric_amount"
    ELSE "free_text"

\* lines 80-102: the chain of rules
InferType(m, tks) ==
    IF \/ RatioAbove(m.emails, m.nonNull, 5) \/ RatioAbove(m.phones, m.nonNull, 5)
       \/ hasToken(tks, contactTokens)
    THEN "contact_info"
    ELSE IF RatioAbove(m.boolish, m.nonNull, 7) THEN "boolean_flag"
    ELSE IF hasToken(tks, dateTokens) \/ RatioAbove(m.dates, m.nonNull, 6) THEN "date"
    ELSE IF \/ RatioAbove(m.uniques, m.nonNull, 9) /\ m.lengths >= 6 * m.nonNull
            \/ hasToken(tks, idTokens)
    THEN "identifier"
    ELSE IF /\ RatioAbove(m.numeric, m.nonNull, 7)
            /\ (m.currencyHit \/ hasToken(tks, amountTokens))
    THEN "numeric_amount"
    ELSE IF hasToken(tks, nameTokens) THEN "name"
    ELSE IF hasToken(tks, textTokens) \/ m.lengths > 20 * m.nonNull THEN "free_text"
    ELSE IF \/ hasToken(tks, categoryHintTokens)
            \/ m.nonNull = 0 \/ 10 * m.uniques < 2 * m.nonNull
    THEN "categorical"
    ELSE IF RatioAbove(m.numeric, m.nonNull, 7) THEN "numeric_amount"
    ELSE "free_text"

\* data.map(r => r[col]).filter(v => v !== null && v !== undefined && v !== '')
ColumnValues(rows, col) ==
    SelectSeq([r \in 1..Len(rows) |-> Cell(rows[r], col)], LAMBDA v : ~IsMissing(v))

\* lines 60-108: the mapping, one type per column name
inferSemanticMapping(cols, rows) ==
    [col \in Range(cols) |-> InferType(Measures(ColumnValues(rows, col)), tokens(col))]

---------------------------------------------------------------------------
(* The batches handed to processBatch *)

Template(source_type, structured_content, raw_content, topic, group_id, confidence) ==
    [source_type |-> source_type, structured_content |-> structured_content,
     raw_content |-> raw_content, topic |-> topic, group_id |-> group_id,
     confidence |-> confidence]

PlainText == <<"Plants", " ", "use", " ", "light">>

LinkedTopic == "Photosynthesis"

LinkedGroup == GroupIdOf(LinkedTopic)

\* a clean text record, a csv row with a topic column (MEDIUM), an api payload that
\* declares a topic (HIGH), an api payload that is not JSON (CRITICAL), one whose
\* raw_content is JSON while its structured_content is not, one whose topic is the
\* empty string, a csv row that is not JSON (CRITICAL), a blank
\* record that was never linked (CRITICAL and HIGH), an audio record without
\* structured_content (validateRecord throws)
BatchTemplates ==
    { Template("text", Some(PlainText), None, LinkedTopic, LinkedGroup, Some("high")),
      Template("csv", Some(<<"{\"topic\":\"x\"}">>), None, LinkedTopic, LinkedGroup, Some("high")),
      Template("api", Some(<<"{\"topic\":\"x\"}">>), None, LinkedTopic, LinkedGroup, Some("high")),
      Template("api", Some(<<"not", " ", "json">>), None, LinkedTopic, LinkedGroup, Some("high")),
      Template("api", Some(<<"not", " ", "json">>), Some(<<"{\"a\":1}">>), LinkedTopic, LinkedGroup,
               Some("high")),
      Template("api", Some(<<"{\"topic\":\"\"}">>), None, LinkedTopic, LinkedGroup, Some("high")),
      Template("csv", Some(<<"not", " ", "json">>), None, LinkedTopic, LinkedGroup, Some("high")),
      Template("text", Some(<<" ">>), None, "", "", None),
      Template("audio", None, None, LinkedTopic, LinkedGroup, None) }

\* '' stands for a record without a file name; "7" is a name that is an array index
FileNames == {"", "f.json", "7"}

MakeRecord(id, tpl, fileName) ==
    [id |-> id, source_type |-> tpl.source_type,
     structured_content |-> tpl.structured_content, raw_content |-> tpl.raw_content,
     created_at |-> "2026-01-01T00:00:0" \o ToString(id) \o ".000Z",
     topic |-> tpl.topic, group_id |-> tpl.group_id,
     metadata |-> [file_name |-> fileName, confidence |-> tpl.confidence]]

---------------------------------------------------------------------------
(* processBatch as a state machine: one step per loop iteration *)

CurrentFile == Head(fileQueue)[1]

CurrentRecords == Head(fileQueue)[2]

CurrentRecord == CurrentRecords[recIdx]

\* processBatch has not been entered
IdleBatch ==
    /\ records = << >>
    /\ recordsByFile = << >>
    /\ fileQueue = << >>
    /\ recIdx = 1
    /\ fileAborted = FALSE
    /\ successful_records = << >>
    /\ failed_records = << >>
    /\ summary = InitialSummary(<< >>)
    /\ validated = << >>

\* linkRecordsByTopic has not been called since the module was loaded
IdleLink ==
    /\ linkArgs = << >>
    /\ anchor = None
    /\ linked = << >>
    /\ TOPIC_REGISTRY = {}
    /\ calls = 0

\* cleanUnifiedData has not been called
IdleClean ==
    /\ cleanArgs = << >>
    /\ cleanIdx = 1
    /\ phase = TextPhase(<< >>, 0, << >>, {})
    /\ cleanOut = None
    /\ firstOut = None

\* cleanData has not been called
IdleTable ==
    /\ data = << >>
    /\ blocks = 0
    /\ rowPhase = CleanRows(<< >>, << >>, << >>)
    /\ report = None

\* generateErrorReport has not been called
IdleReport ==
    /\ now = 0
    /\ errorReports = << >>

\* validateData has not been called
IdleValidate ==
    /\ semantics = << >>
    /\ tally = None
    /\ validationOut = None

\* the earlier cleanUnifiedData has not been called
IdleEnrich ==
    /\ draft = None
    /\ enriched = None

\* inferSemanticMapping has not been called
IdleInfer ==
    /\ analysis = << >>
    /\ sample = << >>
    /\ inferred = None

\* the value processBatch returns
BatchResult ==
    [successful_records |-> successful_records, failed_records |-> failed_records,
     summary |-> summary, validated |-> validated]

InitBatch ==
    /\ mode = "processBatch"
    /\ pc = "ingest"
    /\ IdleLink
    /\ IdleClean
    /\ IdleTable
    /\ records = << >>
    /\ recordsByFile = << >>
    /\ fileQueue = << >>
    /\ recIdx = 1
    /\ fileAborted = FALSE
    /\ successful_records = << >>
    /\ failed_records = << >>
    /\ summary = InitialSummary(<< >>)
    /\ validated = << >>
    /\ IdleReport
    /\ IdleValidate
    /\ IdleEnrich
    /\ IdleInfer

\* the caller appends one ingested record to the batch; the ingestion gives each
\* record its own id
IngestRecord ==
    /\ mode = "processBatch"
    /\ pc = "ingest"
    /\ Len(records) < MaxBatch
    /\ \E tpl \in BatchTemplates, fileName \in FileNames :
         records' = Append(records, MakeRecord(Len(records) + 1, tpl, fileName))
    /\ UNCHANGED <<mode, pc, recordsByFile, fileQueue, recIdx, fileAborted,
                   successful_records, failed_records, summary, validated>>
    /\ UNCHANGED nonBatchVars

\* the caller hands the batch to processBatch
CallProcessBatch ==
    /\ mode = "processBatch"
    /\ pc = "ingest"
    /\ pc' = "start"
    /\ UNCHANGED <<mode, batchVars, nonBatchVars>>

\* lines 60-76: group the records by file and initialise the counts
GroupRecords ==
    /\ mode = "processBatch"
    /\ pc = "start"
    /\ recordsByFile' = GroupByFile(<< >>, records)
    /\ fileQueue' = ObjectEntries(recordsByFile')
    /\ summary' = InitialSummary(records)
    /\ pc' = "loop"
    /\ UNCHANGED <<mode, records, recIdx, fileAborted, successful_records,
                   failed_records, validated>>
    /\ UNCHANGED nonBatchVars

\* faulty variant: fileAborted is declared once, outside the loop over the files
Advance_SharedFlag(st, last) ==
    /\ successful_records' = st.successful_records
    /\ failed_records' = st.failed_records
    /\ summary' = st.summary
    /\ validated' = st.validated
    /\ fileAborted' = st.fileAborted
    /\ recIdx' = IF last THEN 1 ELSE recIdx + 1
    /\ fileQueue' = IF last THEN Tail(fileQueue) ELSE fileQueue

\* the loop variables after an iteration that leaves them as st; after the last
\* record of a file the outer loop moves on and declares fileAborted anew
Advance(st, last) ==
    /\ successful_records' = st.successful_records
    /\ failed_records' = st.failed_records
    /\ summary' = st.summary
    /\ validated' = st.validated
    /\ fileAborted' = IF last THEN FALSE ELSE st.fileAborted
    /\ recIdx' = IF last THEN 1 ELSE recIdx + 1
    /\ fileQueue' = IF last THEN Tail(fileQueue) ELSE fileQueue

\* lines 79-136: one iteration of the inner loop
ProcessRecord ==
    /\ mode = "processBatch"
    /\ pc = "loop"
    /\ fileQueue # << >>
    /\ Advance(ProcessOne(LoopState(fileAborted, successful_records, failed_records,
                                    summary, validated),
                          CurrentFile, CurrentRecord),
               recIdx = Len(CurrentRecords))
    /\ UNCHANGED <<mode, pc, records, recordsByFile, nonBatchVars>>

\* lines 138-142
ReturnBatch ==
    /\ mode = "processBatch"
    /\ pc = "loop"
    /\ fileQueue = << >>
    /\ pc' = "done"
    /\ UNCHANGED <<mode, batchVars, nonBatchVars>>

NextBatch == IngestRecord \/ CallProcessBatch \/ GroupRecords \/ ProcessRecord \/ ReturnBatch

SpecBatch == InitBatch /\ [][NextBatch]_vars

---------------------------------------------------------------------------
(* The calls of linkRecordsByTopic *)

\* freshly ingested records (createRecord): two documents on different subjects,
\* a document whose text sits in raw_content only, and records of other sources
\* whose own content names other subjects or none, and a record without any content
LinkTemplates ==
    { Template("pdf", Some(<<"Photosynthesis", " ", "in", " ", "plants">>),
               Some(<<"Photosynthesis", " ", "in", " ", "plants">>), "", "", Some("high")),
      Template("pdf", Some(<<"Newton", " ", "first", " ", "law">>),
               Some(<<"Newton", " ", "first", " ", "law">>), "", "", Some("high")),
      Template("pdf", Some(<< >>), Some(<<"Force", " ", "and", " ", "gravity">>),
               "", "", Some("high")),
      Template("text", Some(<<"SQL", " ", "code">>), Some(<<"SQL", " ", "code">>),
               "", "", Some("high")),
      Template("api", Some(<<"{}">>), Some(<<"{}">>), "", "", Some("high")),
      Template("chat", Some(<<"therapist">>), Some(<<"therapist">>), "", "", Some("high")),
      Template("audio", Some(<<"Um", " ", "hello">>), Some(<<"Um", " ", "hello">>),
               "", "", Some("high")),
      Template("text", None, None, "", "", None) }

InitLink ==
    /\ mode = "linkRecordsByTopic"
    /\ pc = "ingest"
    /\ IdleBatch
    /\ IdleLink
    /\ IdleClean
    /\ IdleTable
    /\ IdleReport
    /\ IdleValidate
    /\ IdleEnrich
    /\ IdleInfer

\* the caller appends one ingested record to the batch
LinkIngest ==
    /\ mode = "linkRecordsByTopic"
    /\ pc = "ingest"
    /\ Len(linkArgs) < MaxLink
    /\ \E tpl \in LinkTemplates :
         linkArgs' = Append(linkArgs, MakeRecord(Len(linkArgs) + 1, tpl, "f.pdf"))
    /\ UNCHANGED <<mode, pc, anchor, linked, TOPIC_REGISTRY, calls, nonLinkVars>>

\* TOPIC_REGISTRY[anchorTopic] = anchorGroupId
Register(registry, found) ==
    IF IsSome(found)
    THEN { e \in registry : e[1] # Get(found)[1] } \cup {Get(found)}
    ELSE registry

\* lines 297-311: the call, up to the registration of the anchor
FindAnchor ==
    /\ mode = "linkRecordsByTopic"
    /\ pc = "ingest"
    /\ calls < MaxCalls
    /\ anchor' = AnchorOf(FindPdfAnchor(linkArgs))
    /\ TOPIC_REGISTRY' = Register(TOPIC_REGISTRY, anchor')
    /\ calls' = calls + 1
    /\ pc' = "map"
    /\ UNCHANGED <<mode, linkArgs, linked, nonLinkVars>>

\* lines 313-357: one application of the callback of records.map
MapRecord ==
    /\ mode = "linkRecordsByTopic"
    /\ pc = "map"
    /\ Len(linked) < Len(linkArgs)
    /\ linked' = Append(linked, LinkOne(linkArgs[Len(linked) + 1], anchor))
    /\ UNCHANGED <<mode, pc, linkArgs, anchor, TOPIC_REGISTRY, calls, nonLinkVars>>

\* the mapped array is returned
ReturnLinked ==
    /\ mode = "linkRecordsByTopic"
    /\ pc = "map"
    /\ Len(linked) = Len(linkArgs)
    /\ pc' = "done"
    /\ UNCHANGED <<mode, linkVars, nonLinkVars>>

\* the caller prepares another batch; the module, and its registry, stay loaded
NextBatchToLink ==
    /\ mode = "linkRecordsByTopic"
    /\ pc = "done"
    /\ calls < MaxCalls
    /\ linkArgs' = << >>
    /\ linked' = << >>
    /\ anchor' = None
    /\ pc' = "ingest"
    /\ UNCHANGED <<mode, TOPIC_REGISTRY, calls, nonLinkVars>>

NextLink == LinkIngest \/ FindAnchor \/ MapRecord \/ ReturnLinked \/ NextBatchToLink

SpecLink == InitLink /\ [][NextLink]_vars

---------------------------------------------------------------------------
(* The calls of cleanUnifiedData *)

\* linked records: a clean sentence; the same sentence shouted and double-spaced;
\* a transcript that is only a filler word; a transcript that opens with a
\* prohibited phrase once its filler word is gone; a transcript with a markdown
\* header; a scanned page with a page header, OCR slips, abbreviations and a time;
\* an api payload that is not JSON; a csv row with a topic column; a record
\* without content; two shouted sentences; a log line with a time, shouting and
\* a double space
CleanTemplates ==
    { Template("text", Some(PlainText), None, LinkedTopic, LinkedGroup, Some("high")),
      Template("text", Some(<<"PLANTS", " ", " ", "USE", " ", "LIGHT">>), None,
               LinkedTopic, LinkedGroup, Some("high")),
      Template("audio", Some(<<"Um">>), None, LinkedTopic, LinkedGroup, Some("high")),
      Template("audio", Some(<<"um", " ", "this", " ", "audio", " ", "is", " ", "clear">>),
               None, LinkedTopic, LinkedGroup, Some("high")),
      Template("audio", Some(<<"#", " ", "Notes">>), None,
               LinkedTopic, LinkedGroup, Some("high")),
      Template("pdf", Some(<<"Page", " ", "3", "\n", "Ph0tosynthes1s", " ", "needs", " ",
                             "CO2", " ", "w/o", " ", "TEH", " ", "LIGHT", " ", "at", " ",
                             "12:30">>),
               None, LinkedTopic, LinkedGroup, Some("high")),
      Template("api", Some(<<"not", " ", "json">>), None,
               LinkedTopic, LinkedGroup, Some("high")),
      Template("csv", Some(<<"{\"topic\":\"x\"}">>), None,
               LinkedTopic, LinkedGroup, Some("high")),
      Template("text", None, None, LinkedTopic, LinkedGroup, Some("high")),
      Template("text", Some(<<"PLANTS", " ", "USE", " ", "LIGHT", ".", " ", "USE", " ", "LIGHT">>),
               None, LinkedTopic, LinkedGroup, Some("high")),
      Template("log", Some(<<"12:30", " ", " ", "PLANTS", " ", "USE", " ", "LIGHT">>),
               Some(<<"{\"a\":1}">>), LinkedTopic, LinkedGroup, Some("high")) }

CleanFiles == {"f.json", "g.pdf"}

InitClean ==
    /\ mode = "cleanUnifiedData"
    /\ pc = "ingest"
    /\ IdleBatch
    /\ IdleLink
    /\ IdleClean
    /\ IdleTable
    /\ IdleReport
    /\ IdleValidate
    /\ IdleEnrich
    /\ IdleInfer

\* the caller appends one record to the batch
CleanIngest ==
    /\ mode = "cleanUnifiedData"
    /\ pc = "ingest"
    /\ Len(cleanArgs) < MaxClean
    /\ \E tpl \in CleanTemplates, fileName \in CleanFiles :
         cleanArgs' = Append(cleanArgs, MakeRecord(Len(cleanArgs) + 1, tpl, fileName))
    /\ UNCHANGED <<mode, pc, cleanIdx, phase, cleanOut, firstOut, nonCleanVars>>

\* lines 388-436: the call and the initialisation of the counters
CallCleanUnifiedData ==
    /\ mode = "cleanUnifiedData"
    /\ pc = "ingest"
    /\ pc' = "forEach"
    /\ UNCHANGED <<mode, cleanVars, nonCleanVars>>

\* lines 438-497: one call of the forEach callback
CleanRecord ==
    /\ mode = "cleanUnifiedData"
    /\ pc = "forEach"
    /\ cleanIdx <= Len(cleanArgs)
    /\ phase' = CleanOne(phase, cleanArgs[cleanIdx])
    /\ cleanIdx' = cleanIdx + 1
    /\ UNCHANGED <<mode, pc, cleanArgs, cleanOut, firstOut, nonCleanVars>>

\* lines 499-521: the batch validation of the cleaned records and the return
ValidateAndReturn ==
    /\ mode = "cleanUnifiedData"
    /\ pc = "forEach"
    /\ cleanIdx > Len(cleanArgs)
    /\ cleanOut' = Some(Finish(Len(cleanArgs), phase, processBatch(phase.cleanedTextRecords)))
    /\ pc' = "done"
    /\ UNCHANGED <<mode, cleanArgs, cleanIdx, phase, firstOut, nonCleanVars>>

\* the caller hands the records the call returned to cleanUnifiedData again
CallAgain ==
    /\ mode = "cleanUnifiedData"
    /\ pc = "done"
    /\ firstOut = None
    /\ firstOut' = cleanOut
    /\ cleanArgs' = Get(cleanOut).cleanedRecords
    /\ cleanIdx' = 1
    /\ phase' = TextPhase(<< >>, 0, << >>, {})
    /\ cleanOut' = None
    /\ pc' = "forEach"
    /\ UNCHANGED <<mode, nonCleanVars>>

NextClean ==
    CleanIngest \/ CallCleanUnifiedData \/ CleanRecord \/ ValidateAndReturn \/ CallAgain

SpecClean == InitClean /\ [][NextClean]_vars

---------------------------------------------------------------------------
(* The calls of cleanData *)

\* the sheet has a primary identifier column, a second identifier column and a
\* contact column
SheetMapping == << <<"ID", "id">>, <<"Ref", "ref">>, <<"Contact", "contact">> >>

SheetSemantics ==
    << <<"ID", "identifier">>, <<"Ref", "identifier">>, <<"Contact", "contact_info">> >>

IdChoices == {Null, Str(<<"A1">>), Str(<<" ", "A1", " ">>), Str(<<"B2">>)}

RefChoices == {Null, Str(<<"R1">>)}

\* a word that is neither an address nor a number, an address in mixed case
\* between blanks, a number with hyphens
ContactChoices ==
    {Str(<<"not-an-email">>), Str(<<" ", "John@EXAMPLE.com", " ">>),
     Str(<<"555-123-4567">>)}

\* a block of rows with identifiers of their own, all without reference or each
\* with a reference of its own
Block(from, withRef) ==
    [k \in 1..BlockSize |->
       [ID |-> Num(1000 + from + k),
        Ref |-> IF withRef THEN Num(5000 + from + k) ELSE Null]]

InitTable ==
    /\ mode = "cleanData"
    /\ pc = "ingest"
    /\ IdleBatch
    /\ IdleLink
    /\ IdleClean
    /\ IdleTable
    /\ IdleReport
    /\ IdleValidate
    /\ IdleEnrich
    /\ IdleInfer

\* the caller appends one row to the sheet
AddRow ==
    /\ mode = "cleanData"
    /\ pc = "ingest"
    /\ blocks = 0
    /\ Len(data) < MaxRows
    /\ \E id \in IdChoices, ref \in RefChoices, contact \in ContactChoices :
         data' = Append(data, [ID |-> id, Ref |-> ref, Contact |-> contact])
    /\ UNCHANGED <<mode, pc, blocks, rowPhase, report, nonTableVars>>

\* the caller appends a block of rows to a sheet that is empty or ends in a block
AddBlock ==
    /\ mode = "cleanData"
    /\ pc = "ingest"
    /\ blocks < MaxBlocks
    /\ blocks = 0 => data = << >>
    /\ \E withRef \in BOOLEAN : data' = data \o Block(Len(data), withRef)
    /\ blocks' = blocks + 1
    /\ UNCHANGED <<mode, pc, rowPhase, report, nonTableVars>>

\* lines 524-675: the call, up to the end of data.forEach
CleanAllRows ==
    /\ mode = "cleanData"
    /\ pc = "ingest"
    /\ rowPhase' = CleanRows(data, SheetMapping, SheetSemantics)
    /\ pc' = "validate"
    /\ UNCHANGED <<mode, data, blocks, report, nonTableVars>>

\* lines 677-718: the validation of the cleaned rows and the return
ValidateCleaned ==
    /\ mode = "cleanData"
    /\ pc = "validate"
    /\ \E belowHalf \in
            SUBSET HalfColumns(validateData(rowPhase.cleaned_data,
                                            targetSemanticMapping(SheetMapping, SheetSemantics),
                                            {}).field_validation_results) :
         report' = Some(CleaningReport(Len(data), rowPhase,
                          validateData(rowPhase.cleaned_data,
                                       targetSemanticMapping(SheetMapping, SheetSemantics),
                                       belowHalf)))
    /\ pc' = "done"
    /\ UNCHANGED <<mode, data, blocks, rowPhase, nonTableVars>>

NextTable == AddRow \/ AddBlock \/ CleanAllRows \/ ValidateCleaned

SpecTable == InitTable /\ [][NextTable]_vars

---------------------------------------------------------------------------
(* The calls of generateErrorReport on the result of one batch *)

BatchIds == {"batch-1"}

InitReport ==
    /\ mode = "generateErrorReport"
    /\ pc = "ingest"
    /\ IdleBatch
    /\ IdleLink
    /\ IdleClean
    /\ IdleTable
    /\ IdleReport
    /\ IdleValidate
    /\ IdleEnrich
    /\ IdleInfer

\* the caller appends one ingested record to the batch
ReportIngest ==
    /\ mode = "generateErrorReport"
    /\ pc = "ingest"
    /\ Len(records) < MaxReportBatch
    /\ \E tpl \in BatchTemplates, fileName \in FileNames :
         records' = Append(records, MakeRecord(Len(records) + 1, tpl, fileName))
    /\ UNCHANGED <<mode, pc, recordsByFile, fileQueue, recIdx, fileAborted,
                   successful_records, failed_records, summary, validated>>
    /\ UNCHANGED <<nonReportVars, reportVars>>

\* the batch goes through processBatch
RunBatch ==
    /\ mode = "generateErrorReport"
    /\ pc = "ingest"
    /\ successful_records' = processBatch(records).successful_records
    /\ failed_records' = processBatch(records).failed_records
    /\ summary' = processBatch(records).summary
    /\ validated' = processBatch(records).validated
    /\ pc' = "batched"
    /\ UNCHANGED <<mode, records, recordsByFile, fileQueue, recIdx, fileAborted>>
    /\ UNCHANGED <<nonReportVars, reportVars>>

\* time passes
Tick ==
    /\ mode = "generateErrorReport"
    /\ now < MaxClock
    /\ now' = now + 1
    /\ UNCHANGED <<mode, pc, batchVars, nonReportVars, errorReports>>

\* lines 145-165: one run of generateErrorReport on the result of the batch
GenerateErrorReport ==
    /\ mode = "generateErrorReport"
    /\ pc = "batched"
    /\ Len(errorReports) < MaxRuns
    /\ \E batchId \in BatchIds :
         errorReports' = Append(errorReports, generateErrorReport(BatchResult, batchId, now))
    /\ UNCHANGED <<mode, pc, batchVars, nonReportVars, now>>

NextReport == ReportIngest \/ RunBatch \/ Tick \/ GenerateErrorReport

SpecReport == InitReport /\ [][NextReport]_vars

---------------------------------------------------------------------------
(* The calls of validateData *)

\* an identifier column and an amount column
NarrowSemantics == << <<"id", "identifier">>, <<"amount", "numeric_amount">> >>

\* ten identifier columns
WideSemantics ==
    [c \in 1..10 |-> <<"k" \o ToString(c), "identifier">>]

SemanticsChoices == {<< >>, NarrowSemantics, WideSemantics}

KeyChoices == {Null, Str(<<"A1">>), Str(<<"B2">>)}

AmountChoices == {Null, Num(5), Num(0 - 3), Num(100), Str(<<"abc">>)}

\* ten rows with identifiers of their own and the amounts 1..9 and 100 ("spread"),
\* 101..110 ("high") or -1..-9 and -100 ("negative")
Series(kind) ==
    [k \in 1..10 |->
       [id |-> Num(2000 + k),
        amount |-> IF kind = "high" THEN Num(100 + k)
                   ELSE IF kind = "negative"
                        THEN (IF k = 10 THEN Num(0 - 100) ELSE Num(0 - k))
                        ELSE IF k = 10 THEN Num(100) ELSE Num(k)]]

InitValidate ==
    /\ mode = "validateData"
    /\ pc = "ingest"
    /\ IdleBatch
    /\ IdleLink
    /\ IdleClean
    /\ IdleTable
    /\ IdleReport
    /\ IdleValidate
    /\ IdleEnrich
    /\ IdleInfer

\* the caller appends one row to the sheet
SheetValue ==
    /\ mode = "validateData"
    /\ pc = "ingest"
    /\ blocks = 0
    /\ Len(data) < MaxValues
    /\ \E id \in KeyChoices, amount \in AmountChoices :
         data' = Append(data, [id |-> id, amount |-> amount])
    /\ UNCHANGED <<mode, pc, blocks, validateVars, nonValidateVars>>

\* the caller appends a series of ten amounts to a sheet that holds single rows only
SheetSeries ==
    /\ mode = "validateData"
    /\ pc = "ingest"
    /\ blocks = 0
    /\ Len(data) <= MaxValues
    /\ \E kind \in {"spread", "high", "negative"} : data' = data \o Series(kind)
    /\ UNCHANGED <<mode, pc, blocks, validateVars, nonValidateVars>>

\* the caller appends a block of rows that have none of the mapped columns
SheetBlock ==
    /\ mode = "validateData"
    /\ pc = "ingest"
    /\ blocks < MaxBlocks
    /\ blocks = 0 => Len(data) <= MaxLead
    /\ data' = data \o Block(Len(data), TRUE)
    /\ blocks' = blocks + 1
    /\ UNCHANGED <<mode, pc, validateVars, nonValidateVars>>

\* lines 3-189: the call and the value-level pass
ValidateValues ==
    /\ mode = "validateData"
    /\ pc = "ingest"
    /\ \E sm \in SemanticsChoices :
         /\ semantics' = sm
         /\ tally' = Some(ValuePass(addIssue(Raising(data, sm), data, sm),
                                   Findings(Raising(data, sm), data, sm)))
    /\ pc' = "outliers"
    /\ UNCHANGED <<mode, data, blocks, validationOut, nonValidateVars>>

\* lines 191-217: the outlier pass over the numeric columns
FindOutliers ==
    /\ mode = "validateData"
    /\ pc = "outliers"
    /\ tally' = Some(OutlierPass(Get(tally), Outliers(data, semantics)))
    /\ pc' = "score"
    /\ UNCHANGED <<mode, data, blocks, semantics, validationOut, nonValidateVars>>

\* lines 219-255: the scores, the status and the return
ScoreAndReturn ==
    /\ mode = "validateData"
    /\ pc = "score"
    /\ \E belowHalf \in
            SUBSET HalfColumns(ValidationReport(data, semantics, Get(tally), {})
                                 .field_validation_results) :
         validationOut' = Some(ValidationReport(data, semantics, Get(tally), belowHalf))
    /\ pc' = "done"
    /\ UNCHANGED <<mode, data, blocks, semantics, tally, nonValidateVars>>

NextValidate ==
    SheetValue \/ SheetSeries \/ SheetBlock \/ ValidateValues \/ FindOutliers \/ ScoreAndReturn

SpecValidate == InitValidate /\ [][NextValidate]_vars

---------------------------------------------------------------------------
(* The calls of the earlier cleanUnifiedData on one record *)

MetadataKeys ==
    {"file_name", "page", "section", "speaker", "timestamp", "timestamp_range",
     "user_id", "event_type"}

\* '' is a value that is present and falsy
MetadataValues == {"", "kept"}

\* a plain sentence; a page under a chapter header; a message that names an
\* error; one that names a warning; a question
DraftContents ==
    { PlainText,
      <<"Chapter", " ", "3", "\n", "Plants", " ", "use", " ", "light">>,
      <<"Plants", " ", "error">>,
      <<"Plants", " ", "warning">>,
      <<"Plants", " ", "use", " ", "light", "?">> }

InitEnrich ==
    /\ mode = "enrichMetadata"
    /\ pc = "ingest"
    /\ IdleBatch
    /\ IdleLink
    /\ IdleClean
    /\ IdleTable
    /\ IdleReport
    /\ IdleValidate
    /\ IdleEnrich
    /\ IdleInfer

\* the ingestion makes a record without metadata
DraftRecord ==
    /\ mode = "enrichMetadata"
    /\ pc = "ingest"
    /\ draft = None
    /\ \E sourceType \in {"pdf", "audio", "api", "chat", "text"}, content \in DraftContents :
         draft' = Some([id |-> 1, source_type |-> sourceType,
                        structured_content |-> Some(content), metadata |-> << >>])
    /\ UNCHANGED <<mode, pc, enriched, nonEnrichVars>>

\* the caller supplies one key of the metadata
SupplyKey ==
    /\ mode = "enrichMetadata"
    /\ pc = "ingest"
    /\ IsSome(draft)
    /\ Cardinality(DOMAIN Get(draft).metadata) < MaxKeys
    /\ \E key \in MetadataKeys \ DOMAIN Get(draft).metadata, value \in MetadataValues :
         draft' = Some([Get(draft) EXCEPT !.metadata = WithKey(@, key, value)])
    /\ UNCHANGED <<mode, pc, enriched, nonEnrichVars>>

\* lines 52-190 on the record: the spread copies record.metadata, the record
\* itself is never written
LegacyClean ==
    /\ mode = "enrichMetadata"
    /\ pc = "ingest"
    /\ IsSome(draft)
    /\ enriched' = Some(LegacyCleaned(Get(draft)))
    /\ pc' = "done"
    /\ UNCHANGED <<mode, draft, nonEnrichVars>>

NextEnrich == DraftRecord \/ SupplyKey \/ LegacyClean

SpecEnrich == InitEnrich /\ [][NextEnrich]_vars

---------------------------------------------------------------------------
(* The calls of inferSemanticMapping *)

\* column names with a contact word, a date word next to an identifier word, an
\* identifier word, a name word next to an amount word, a text word, a category
\* word, a name word, and none of them
ColumnNames ==
    { <<"Email">>, <<"order", "_", "date">>, <<"user", "_", "id">>,
      <<"Company", " ", "revenue">>, <<"notes">>, <<"status">>, <<"full", "_", "name">>,
      <<"qty">> }

LongText == <<"the", " ", "quick", " ", "brown", " ", "fox", " ", "jumps">>

\* the values of one column, row by row: addresses, telephone numbers, yes and no,
\* dates, codes that differ, amounts one of which has a currency sign, amounts,
\* first names, long texts, one colour, and nothing
ColumnSamples ==
    { <<Str(<<"john@example.com">>), Str(<<"john@example.com">>), Str(<<"Bob">>)>>,
      <<Str(<<"555-123-4567">>), Str(<<"555-123-4567">>)>>,
      <<Str(<<"yes">>), Str(<<"no">>), Str(<<"yes">>)>>,
      <<Str(<<"2024-01-15">>), Str(<<"2024-01-15">>), Str(<<"2024-13-45">>)>>,
      <<Str(<<"ABC-001">>), Str(<<"ABC-002">>)>>,
      <<Num(100), Num(100), Num(100), Str(<<"$5">>)>>,
      <<Num(100), Num(120), Num(100)>>,
      <<Str(<<"Alice">>), Str(<<"Bob">>), Str(<<"Alice">>)>>,
      <<Str(LongText), Str(LongText)>>,
      <<Str(<<"red">>), Str(<<"red">>), Str(<<"red">>), Str(<<"red">>), Str(<<"red">>),
        Str(<<"red">>)>>,
      <<Null, Str(<< >>)>> }

InitInfer ==
    /\ mode = "inferSemanticMapping"
    /\ pc = "ingest"
    /\ IdleBatch
    /\ IdleLink
    /\ IdleClean
    /\ IdleTable
    /\ IdleReport
    /\ IdleValidate
    /\ IdleEnrich
    /\ IdleInfer

\* the row at position r with the cell of a further column; a row the column's
\* values do not reach has no such cell
WithCell(rows, r, col, values) ==
    IF r > Len(values) THEN (IF rows = << >> THEN << >> ELSE rows[r])
    ELSE [c \in (IF rows = << >> THEN {} ELSE DOMAIN rows[r]) \cup {col} |->
            IF c = col THEN values[r] ELSE rows[r][c]]

\* the caller's sheet gets a further column
AddColumn ==
    /\ mode = "inferSemanticMapping"
    /\ pc = "ingest"
    /\ Len(analysis) < MaxColumns
    /\ \E col \in ColumnNames \ Range(analysis), values \in ColumnSamples :
         /\ analysis' = Append(analysis, col)
         /\ sample' = [r \in 1..SampleRows |-> WithCell(sample, r, col, values)]
    /\ UNCHANGED <<mode, pc, inferred, nonInferVars>>

\* lines 60-108: the call
InferMapping ==
    /\ mode = "inferSemanticMapping"
    /\ pc = "ingest"
    /\ inferred' = Some(inferSemanticMapping(analysis, sample))
    /\ pc' = "done"
    /\ UNCHANGED <<mode, analysis, sample, nonInferVars>>

NextInfer == AddColumn \/ InferMapping

SpecInfer == InitInfer /\ [][NextInfer]_vars

---------------------------------------------------------------------------
(* Vocabulary of the claims about processBatch *)

Done == mode = "processBatch" /\ pc = "done"

Ids == 1..Len(records)

SameFile(i, j) == records[i].metadata.file_name = records[j].metadata.file_name

\* validateRecord returns for the record, with an error of this severity
Yields(i, sev) ==
    ~validateRecord(records[i]).threw /\ HasSeverity(validateRecord(records[i]).errors, sev)

Throws(i) == validateRecord(records[i]).threw

WasValidated(result, id) == \E k \in 1..Len(result.validated) : result.validated[k] = id

SuccessCount(result, id) ==
    Cardinality({ k \in 1..Len(result.successful_records) :
                    result.successful_records[k].id = id })

FailedCount(result, id) ==
    Cardinality({ k \in 1..Len(result.failed_records) :
                    result.failed_records[k].record_id = id })

FailedErrors(result, id) ==
    LET k == CHOOSE k \in 1..Len(result.failed_records) :
                 result.failed_records[k].record_id = id
    IN result.failed_records[k].errors

\* what the caller learns about one record: its status and, when it failed, its errors
Outcome(result, id) ==
    IF SuccessCount(result, id) > 0 THEN [status |-> "SUCCESS", errors |-> << >>]
    ELSE IF FailedCount(result, id) > 0
         THEN [status |-> "FAILED", errors |-> FailedErrors(result, id)]
         ELSE [status |-> "NONE", errors |-> << >>]

\* the first record of its file on which validateRecord reports a CRITICAL error
FirstCritical(i) ==
    /\ Yields(i, "CRITICAL")
    /\ \A h \in 1..(i - 1) : SameFile(h, i) => ~Yields(h, "CRITICAL")

\* the records up to i that share record i's file name, ids kept
SameFilePrefix(i) ==
    SelectSeq(SubSeq(records, 1, i),
              LAMBDA r : r.metadata.file_name = records[i].metadata.file_name)

\* the batch without record i, ids kept
Without(i) == SelectSeq(records, LAMBDA r : r.id # i)

---------------------------------------------------------------------------
(* C1: once a record of a file yields a CRITICAL error, that record is in
   failed_records with its validation errors, every later record with the same
   file name is in failed_records with exactly the one error FILE_ABORTED and is
   never handed to validateRecord, and none of them is in successful_records. *)
C1_FileAbort ==
    Done =>
      \A i \in Ids :
        FirstCritical(i) =>
          /\ Outcome(BatchResult, i) =
               [status |-> "FAILED", errors |-> validateRecord(records[i]).errors]
          /\ \A j \in (i + 1)..Len(records) :
               SameFile(i, j) =>
                 /\ Outcome(BatchResult, j) =
                      [status |-> "FAILED", errors |-> <<FileAbortedError>>]
                 /\ FileAbortedError.code = "FILE_ABORTED"
                 /\ ~WasValidated(BatchResult, j)

\* a finished batch in which a record follows a CRITICAL record of its file
C1_Witness ==
    /\ Done
    /\ \E i \in Ids : FirstCritical(i) /\ \E j \in (i + 1)..Len(records) : SameFile(i, j)

---------------------------------------------------------------------------
(* C2: the outcome of a record (its status and its errors) is the outcome it has
   when processBatch is given only that record and the earlier records with the
   same metadata.file_name: no record of another file changes it. *)
C2_FileScoped ==
    Done =>
      \A i \in Ids :
        Outcome(BatchResult, i) = Outcome(processBatch(SameFilePrefix(i)), i)

\* a finished batch in which a record succeeds although a record of another file,
\* earlier in the batch, was CRITICAL
C2_Witness ==
    /\ Done
    /\ \E i \in Ids :
         /\ Outcome(BatchResult, i).status = "SUCCESS"
         /\ \E h \in 1..(i - 1) : ~SameFile(h, i) /\ Yields(h, "CRITICAL")

---------------------------------------------------------------------------
(* C3: a step of the loop on a record of a file that is not aborted hands the
   record to validateRecord; if its errors include a HIGH and no CRITICAL the
   record is appended to failed_records and the file stays active; if it has only
   MEDIUM/LOW errors it is appended to successful_records and summary.warnings
   grows by exactly 1; if it has no errors it is appended to successful_records
   and summary.warnings is unchanged. *)
C3_Verdict(r, v) ==
    /\ validated' = Append(validated, r.id)
    /\ (HasSeverity(v.errors, "HIGH") /\ ~HasSeverity(v.errors, "CRITICAL")) =>
         /\ failed_records' = Append(failed_records, FailedEntry(r, CurrentFile, v.errors))
         /\ successful_records' = successful_records
         /\ summary' = [summary EXCEPT !.failed = @ + 1]
         /\ fileAborted' = FALSE
         /\ recIdx < Len(CurrentRecords) => fileQueue' = fileQueue /\ recIdx' = recIdx + 1
    /\ (v.errors # << >> /\ \A k \in 1..Len(v.errors) : v.errors[k].severity \in {"MEDIUM", "LOW"}) =>
         /\ successful_records' = Append(successful_records, r)
         /\ failed_records' = failed_records
         /\ summary' = [summary EXCEPT !.success = @ + 1, !.warnings = @ + 1]
    /\ v.errors = << >> =>
         /\ successful_records' = Append(successful_records, r)
         /\ failed_records' = failed_records
         /\ summary' = [summary EXCEPT !.success = @ + 1]

C3_Severity ==
    [][(ProcessRecord /\ ~fileAborted /\ ~validateRecord(CurrentRecord).threw)
         => C3_Verdict(CurrentRecord, validateRecord(CurrentRecord))]_vars

\* a finished batch with a warning counted, and with a HIGH-only record that failed
\* and was followed by a validated record of the same file
C3_Witness ==
    /\ Done
    /\ summary.warnings > 0
    /\ \E i \in Ids :
         /\ Yields(i, "HIGH") /\ ~Yields(i, "CRITICAL")
         /\ WasValidated(BatchResult, i)
         /\ \E j \in (i + 1)..Len(records) : SameFile(i, j) /\ WasValidated(BatchResult, j)
    /\ \E i \in Ids : validateRecord(records[i]) = Returned(<< >>)

---------------------------------------------------------------------------
(* C6: after processBatch every input record is exactly once in successful_records
   or failed_records, never in both; total = success + failed = the number of
   input records, success = |successful_records|, failed = |failed_records| and
   warnings <= success. *)
C6_Accounting ==
    Done =>
      /\ \A i \in Ids : SuccessCount(BatchResult, i) + FailedCount(BatchResult, i) = 1
      /\ Len(successful_records) + Len(failed_records) = Len(records)
      /\ summary.total = Len(records)
      /\ summary.total = summary.success + summary.failed
      /\ summary.success = Len(successful_records)
      /\ summary.failed = Len(failed_records)
      /\ summary.warnings <= summary.success

\* a finished batch with a success, a validation failure and an aborted record
C6_Witness ==
    /\ Done
    /\ summary.success > 0
    /\ summary.warnings < summary.success
    /\ \E i \in Ids : Outcome(BatchResult, i).errors = <<FileAbortedError>>

---------------------------------------------------------------------------
(* C10: when validateRecord throws for a record, processBatch still returns: the
   record is in failed_records with a single HIGH error that carries the exception
   message, the next record of its file is still validated, and every other record
   has the outcome it has in the batch without the throwing record. *)
C10_Exception ==
    Done =>
      \A i \in Ids :
        (Throws(i) /\ WasValidated(BatchResult, i)) =>
          /\ Outcome(BatchResult, i) =
               [status |-> "FAILED",
                errors |-> <<Err("ForcedException", "HIGH", validateRecord(records[i]).message)>>]
          /\ \A j \in (i + 1)..Len(records) :
               (SameFile(i, j) /\ \A h \in (i + 1)..(j - 1) : ~SameFile(i, h))
                 => WasValidated(BatchResult, j)
          /\ \A j \in Ids \ {i} :
               Outcome(BatchResult, j) = Outcome(processBatch(Without(i)), j)

\* a finished batch in which validateRecord threw and a later record of the same
\* file succeeded
C10_Witness ==
    /\ Done
    /\ \E i \in Ids :
         /\ Throws(i) /\ WasValidated(BatchResult, i)
         /\ \E j \in (i + 1)..Len(records) :
              SameFile(i, j) /\ Outcome(BatchResult, j).status = "SUCCESS"

---------------------------------------------------------------------------
(* Vocabulary of the claims about linkRecordsByTopic *)

LinkReturned == mode = "linkRecordsByTopic" /\ pc = "done"

HasPdf == \E i \in 1..Len(linkArgs) : linkArgs[i].source_type = "pdf"

FirstPdf ==
    CHOOSE i \in 1..Len(linkArgs) :
      /\ linkArgs[i].source_type = "pdf"
      /\ \A j \in 1..(i - 1) : linkArgs[j].source_type # "pdf"

\* the topic a record's own content and source type stand for
OwnTopic(record) == extractCanonicalTopic(ContentToAnalyze(record), record.source_type)

---------------------------------------------------------------------------
(* C4: when the batch handed to linkRecordsByTopic holds a pdf record, every
   returned record carries one and the same (topic, group_id) pair: the topic
   extracted from the content of the first pdf record and the group id built from
   that topic, whatever the record's own source type or content. *)
C4_AnchorPair ==
    (LinkReturned /\ HasPdf) =>
      /\ Len(linked) = Len(linkArgs)
      /\ \A k \in 1..Len(linked) :
           /\ linked[k].topic = OwnTopic(linkArgs[FirstPdf])
           /\ linked[k].group_id = GroupIdOf(OwnTopic(linkArgs[FirstPdf]))
      /\ \A k, l \in 1..Len(linked) :
           <<linked[k].topic, linked[k].group_id>> = <<linked[l].topic, linked[l].group_id>>

\* a returned batch with two pdf records on different subjects and a record of
\* another source whose own content stands for a third subject
C4_Witness ==
    /\ LinkReturned
    /\ HasPdf
    /\ \E i, j \in 1..Len(linkArgs) :
         /\ i > FirstPdf /\ linkArgs[i].source_type = "pdf"
         /\ OwnTopic(linkArgs[i]) # OwnTopic(linkArgs[FirstPdf])
         /\ linkArgs[j].source_type \in {"api", "chat"}
         /\ OwnTopic(linkArgs[j]) \notin {OwnTopic(linkArgs[i]), OwnTopic(linkArgs[FirstPdf])}
         /\ linked[j].topic = OwnTopic(linkArgs[FirstPdf])

---------------------------------------------------------------------------
(* Vocabulary of the claims about cleanUnifiedData *)

CleanReturned == mode = "cleanUnifiedData" /\ pc = "done"

cleanedRecords == Get(cleanOut).cleanedRecords

\* validateRecord returns for the record without an error of the severities
Passes(record, severities) ==
    /\ ~validateRecord(record).threw
    /\ \A k \in 1..Len(validateRecord(record).errors) :
         validateRecord(record).errors[k].severity \notin severities

\* the record as the text cleaning leaves it
Cleaned(record) == [record EXCEPT !.structured_content = Some(CleanText(record, << >>).content)]

\* position of the record with this id among the records that reached the validator
ReachedAt(id) ==
    CHOOSE k \in 1..Len(phase.cleanedTextRecords) : phase.cleanedTextRecords[k].id = id

\* an earlier record of the same file that reached the validator and was CRITICAL
AfterCritical(id) ==
    \E h \in 1..(ReachedAt(id) - 1) :
      /\ phase.cleanedTextRecords[h].metadata.file_name
           = phase.cleanedTextRecords[ReachedAt(id)].metadata.file_name
      /\ ~Passes(phase.cleanedTextRecords[h], {"CRITICAL"})

Emitted(id) == \E k \in 1..Len(cleanedRecords) : cleanedRecords[k].id = id

Reached(id) ==
    \E k \in 1..Len(phase.cleanedTextRecords) : phase.cleanedTextRecords[k].id = id

---------------------------------------------------------------------------
(* C5: every record cleanUnifiedData returns in cleanedRecords is an input record
   with its cleaned content, was handed to validateRecord in that form, has no
   HIGH and no CRITICAL error there, and does not follow a CRITICAL record of its
   file among the records that reached the validator. *)
C5_Gate ==
    CleanReturned =>
      \A k \in 1..Len(cleanedRecords) :
        /\ \E i \in 1..Len(cleanArgs) : cleanedRecords[k] = Cleaned(cleanArgs[i])
        /\ \E v \in 1..Len(Get(cleanOut).validated) :
             Get(cleanOut).validated[v] = cleanedRecords[k].id
        /\ Passes(cleanedRecords[k], {"HIGH", "CRITICAL"})
        /\ Reached(cleanedRecords[k].id)
        /\ ~AfterCritical(cleanedRecords[k].id)

\* a call that returns a record, holds back a record whose content was acceptable
\* before the cleaning and is not after it, and holds back an acceptable record
\* that follows a CRITICAL record of its file
C5_Witness ==
    /\ CleanReturned
    /\ Len(cleanedRecords) > 0
    /\ \E i \in 1..Len(cleanArgs) :
         /\ Passes(cleanArgs[i], {"HIGH", "CRITICAL"})
         /\ ~Passes(Cleaned(cleanArgs[i]), {"HIGH", "CRITICAL"})
         /\ ~Emitted(cleanArgs[i].id)
    /\ \E i \in 1..Len(cleanArgs) :
         /\ Passes(Cleaned(cleanArgs[i]), {"HIGH", "CRITICAL"})
         /\ Reached(cleanArgs[i].id)
         /\ AfterCritical(cleanArgs[i].id)
         /\ ~Emitted(cleanArgs[i].id)

---------------------------------------------------------------------------
(* Vocabulary of the claims about cleanData *)

TableDone == mode = "cleanData" /\ pc = "done"

Rows == 1..Len(data)

\* the value of the primary identifier column in the input row at position i
PrimaryId(i) == Cell(data[i], "ID")

HasId(i) == ~IsNullish(PrimaryId(i)) /\ Trim(String(PrimaryId(i))) # << >>

\* the row carries, after trimming, the identifier of an earlier row
Repeats(i) ==
    /\ HasId(i)
    /\ \E j \in 1..(i - 1) :
         HasId(j) /\ Trim(String(PrimaryId(j))) = Trim(String(PrimaryId(i)))

MustDrop(i) == ~HasId(i) \/ Repeats(i)

FirstOfId(i) == HasId(i) /\ ~Repeats(i)

\* the field the primary identifier of input row i has once cleaned
CleanedId(i) == CleanValue(PrimaryId(i))

\* the issues validateData collected on the cleaned rows, before the report is cut
Found ==
    addIssue(Raising(rowPhase.cleaned_data,
                     targetSemanticMapping(SheetMapping, SheetSemantics)),
             rowPhase.cleaned_data,
             targetSemanticMapping(SheetMapping, SheetSemantics))

\* the cleaned row is in the returned cleaned_data
Output(row) == \E k \in 1..Len(Get(report).cleaned_data) : Get(report).cleaned_data[k] = row

\* the input row at position i has no row in the returned cleaned_data
Absent(i) ==
    MustDrop(i) \/ \A k \in 1..Len(Get(report).cleaned_data) :
                     Get(report).cleaned_data[k].id # CleanedId(i)

---------------------------------------------------------------------------
(* C7.  No row of the returned cleaned_data is a row for which the validation of
   the cleaned rows found a critical issue, however many issues the sheet
   raises.  The code does not keep this: validateData returns the first 100
   issues only, and the rows whose critical issue comes later stay in the
   output. *)
C7_NoCriticalRow ==
    TableDone =>
      \A k \in 1..Len(Found) :
        Found[k].severity = "critical" => ~Output(rowPhase.cleaned_data[Found[k].row])

---------------------------------------------------------------------------
(* C8.  A row whose primary identifier is null, empty or, after trimming, the
   identifier of an earlier row is dropped before field cleaning, and the first
   row of each identifier is cleaned; when no cleaned row has a critical issue,
   the output has one row per identifier and dropped_records counts each
   dropped row once. *)
C8_IdentifierDedup ==
    pc \in {"validate", "done"} /\ mode = "cleanData" =>
      /\ rowPhase.dropped_rows = Ascending({ i - 1 : i \in { j \in Rows : MustDrop(j) } })
      /\ Len(rowPhase.cleaned_data) = Cardinality({ i \in Rows : FirstOfId(i) })
      /\ \A i \in Rows :
           FirstOfId(i) =>
             rowPhase.cleaned_data[Cardinality({ j \in 1..i : FirstOfId(j) })].id
               = CleanedId(i)
      /\ (TableDone /\ Get(report).stats.records_with_critical_errors = 0) =>
           /\ Len(Get(report).cleaned_data) = Cardinality({ i \in Rows : FirstOfId(i) })
           /\ Get(report).stats.dropped_records = Cardinality({ i \in Rows : MustDrop(i) })
           /\ \A i \in Rows : MustDrop(i) => (i - 1) \in Range(Get(report).dropped_rows)

\* two rows whose identifiers differ only by surrounding blanks: one output row,
\* the second row dropped
C8_Witness ==
    /\ TableDone
    /\ Len(data) = 2
    /\ PrimaryId(1) = Str(<<"A1">>)
    /\ PrimaryId(2) = Str(<<" ", "A1", " ">>)
    /\ Len(Get(report).cleaned_data) = 1
    /\ Get(report).stats.dropped_records = 1
    /\ Get(report).dropped_rows = <<1>>

---------------------------------------------------------------------------
(* C9.  dropped_rows holds exactly the input indices of the rows absent from
   cleaned_data, ascending and each once, and dropped_records = |dropped_rows| =
   initial_records - records_after_cleaning.  The code does not keep this: the
   row number of a critical issue counts the cleaned rows, not the input rows,
   so after an identifier drop it names another row. *)
C9_DroppedRows ==
    TableDone =>
      /\ Get(report).dropped_rows = Ascending({ i - 1 : i \in { j \in Rows : Absent(j) } })
      /\ Get(report).stats.dropped_records = Len(Get(report).dropped_rows)
      /\ Get(report).stats.dropped_records
           = Get(report).stats.initial_records - Get(report).stats.records_after_cleaning

---------------------------------------------------------------------------
(* Vocabulary of the claims about the duplicate check of cleanUnifiedData *)

\* the signature of a record as returned: its content is the cleaned content
SignatureOf(record) ==
    Signature(record, IF IsSome(record.structured_content)
                      THEN Get(record.structured_content) ELSE << >>)

\* the signature the forEach callback computes for the input record at position i
InputSignature(i) == SignatureOf(Cleaned(cleanArgs[i]))

\* the input record at position i shares its signature with an earlier one
Duplicate(i) == \E j \in 1..(i - 1) : InputSignature(j) = InputSignature(i)

Duplicates == { i \in 1..Len(cleanArgs) : Duplicate(i) }

---------------------------------------------------------------------------
(* C11: cleanUnifiedData never returns two records with the same signature; an
   input record that shares its signature with an earlier record of the batch
   is not returned, and dropped_records and the duplicates_removed counter each
   count every such record exactly once (dropped_records counts the records
   that failed validation besides). *)
C11_Signature ==
    CleanReturned =>
      /\ \A k, l \in 1..Len(cleanedRecords) :
           SignatureOf(cleanedRecords[k]) = SignatureOf(cleanedRecords[l]) => k = l
      /\ \A i \in Duplicates : ~Emitted(cleanArgs[i].id) /\ ~Reached(cleanArgs[i].id)
      /\ phase.dropped_records = Cardinality(Duplicates)
      /\ Get(cleanOut).stats.dropped_records
           = Cardinality(Duplicates) + Get(cleanOut).stats.records_with_critical_errors
      /\ IF Duplicates = {}
         THEN "duplicates_removed" \notin DOMAIN Get(cleanOut).stats.fixes_applied
         ELSE Get(cleanOut).stats.fixes_applied["duplicates_removed"] = Cardinality(Duplicates)

\* a call in which a record is returned and two later records, one of them written
\* differently, share its signature
C11_Witness ==
    /\ CleanReturned
    /\ Cardinality(Duplicates) = 2
    /\ \E i \in Duplicates :
         /\ cleanArgs[i].structured_content # cleanArgs[1].structured_content
         /\ InputSignature(i) = InputSignature(1)
    /\ Emitted(cleanArgs[1].id)
    /\ Get(cleanOut).stats.fixes_applied["duplicates_removed"] = 2

---------------------------------------------------------------------------
(* Vocabulary of the claims about the order of processBatch *)

\* the position in the input batch of the record with this id
InputPos(id) == CHOOSE i \in Ids : records[i].id = id

---------------------------------------------------------------------------
(* C12: the records processBatch returns in successful_records are in input
   order: of two surviving records, the one that came first in the input batch
   comes first in the output, also when the records of different files are
   interleaved in the input.  The code does not keep this: the records are
   processed file by file, so a record of the first file that comes late in the
   batch is returned before an earlier record of another file. *)
C12_InputOrder ==
    Done =>
      \A k, l \in 1..Len(successful_records) :
        k < l => InputPos(successful_records[k].id) < InputPos(successful_records[l].id)

---------------------------------------------------------------------------
(* C13: processBatch takes the files in the order in which their file name is
   first observed in the batch, and the records of one file in their original
   order: at every point of the loop, each record already settled precedes each
   record still pending in that order.  The code does not keep this for every
   set of file names: Object.entries lists the names that are array indices
   first, in ascending numeric order, whenever they were observed. *)
Settled(i) ==
    \/ \E k \in 1..Len(successful_records) : successful_records[k].id = records[i].id
    \/ \E k \in 1..Len(failed_records) : failed_records[k].record_id = records[i].id

\* the position at which the file name of record i is first observed
FirstObserved(i) ==
    CHOOSE j \in 1..i :
      /\ FileKey(records[j]) = FileKey(records[i])
      /\ \A h \in 1..(j - 1) : FileKey(records[h]) # FileKey(records[i])

\* record i comes before record j when files are taken in first-observed order
Precedes(i, j) ==
    \/ FirstObserved(i) < FirstObserved(j)
    \/ FirstObserved(i) = FirstObserved(j) /\ i < j

C13_FileOrder ==
    mode = "processBatch" /\ pc \in {"loop", "done"} =>
      \A i, j \in Ids : (Settled(i) /\ ~Settled(j)) => Precedes(i, j)

---------------------------------------------------------------------------
(* C14: two runs of generateErrorReport on the result of the same batch return
   identical reports, whenever they run.  The code does not keep this: the
   report carries the time of the run. *)
C14_SameReport ==
    \A k, l \in 1..Len(errorReports) : errorReports[k] = errorReports[l]

---------------------------------------------------------------------------
(* Vocabulary of the claims about a second run of cleanUnifiedData *)

\* cleanUnifiedData has returned from a call on the records it returned before
CleanedAgain == CleanReturned /\ IsSome(firstOut)

TextCounters ==
    {"headers_removed", "page_markers_removed", "timestamps_removed_from_text",
     "filler_words_removed", "ocr_errors_fixed", "abbreviations_expanded",
     "shouting_fixed", "spacing_fixed"}

---------------------------------------------------------------------------
(* C15: running cleanUnifiedData on the records it returned changes nothing:
   the records come back with their structured_content unchanged, no text fix
   counter is incremented and no record is dropped.  The code does not keep
   this: a fix of one run can expose text that the next run rewrites. *)
C15_Idempotent ==
    CleanedAgain =>
      /\ cleanedRecords = Get(firstOut).cleanedRecords
      /\ DOMAIN Get(cleanOut).stats.fixes_applied \cap TextCounters = {}
      /\ Get(cleanOut).stats.dropped_records = 0

---------------------------------------------------------------------------
(* Vocabulary of the claims about validateData *)

ValidateReturned == mode = "validateData" /\ pc = "done" /\ IsSome(validationOut)

TheReport == Get(validationOut)

FieldScores ==
    [k \in 1..Len(TheReport.field_validation_results) |->
       TheReport.field_validation_results[k].quality_score]

---------------------------------------------------------------------------
(* C16: in the report validateData returns, the quality_score of every field is
   a whole number from 0 to 100, and with at least one field the
   dataset_quality_score is the mean of the field scores rounded to the nearest
   whole number, a half going up. *)

C16_Scores ==
    ValidateReturned =>
      /\ \A k \in 1..Len(FieldScores) : FieldScores[k] \in 0..100
      /\ Len(FieldScores) > 0 =>
           /\ TheReport.dataset_quality_score \in 0..100
           /\ 2 * Len(FieldScores) * TheReport.dataset_quality_score
                <= 2 * Sum(FieldScores) + Len(FieldScores)
           /\ 2 * Sum(FieldScores) + Len(FieldScores)
                < 2 * Len(FieldScores) * (TheReport.dataset_quality_score + 1)

\* a report with two fields whose scores differ, one of them strictly between 0
\* and 100, and whose mean is not a whole number
C16_Witness ==
    /\ ValidateReturned
    /\ Len(FieldScores) = 2
    /\ FieldScores[1] # FieldScores[2]
    /\ FieldScores[2] \in 1..99
    /\ Sum(FieldScores) % 2 = 1

---------------------------------------------------------------------------
(* C17: the validation_status of the report validateData returns is "fail"
   exactly when the dataset score is below 60 or the number of errors is more
   than a tenth of the number of rows; failing that it is "warn" exactly when
   the dataset score is below 90 or a warning was raised; failing both it is
   "pass".  The errors and warnings are the critical and the warning findings of
   the two passes. *)

ErrorsRaised ==
    Cardinality({ k \in 1..Len(Get(tally).found) : Get(tally).found[k].severity = "critical" })

WarningsRaised ==
    Cardinality({ k \in 1..Len(Get(tally).found) : Get(tally).found[k].severity = "warning" })
      + Len(Get(tally).outliers)

MustFail ==
    \/ TheReport.dataset_quality_score < 60
    \/ 10 * ErrorsRaised > Len(data)

MustWarn ==
    /\ ~MustFail
    /\ \/ TheReport.dataset_quality_score < 90
       \/ WarningsRaised > 0

C17_Status ==
    ValidateReturned =>
      /\ TheReport.validation_status \in {"fail", "warn", "pass"}
      /\ TheReport.validation_status = "fail" <=> MustFail
      /\ TheReport.validation_status = "warn" <=> MustWarn
      /\ TheReport.validation_status = "pass" <=> (~MustFail /\ ~MustWarn)

\* a report that fails on its errors alone: the score is 60 or more
C17_Witness ==
    /\ ValidateReturned
    /\ TheReport.validation_status = "fail"
    /\ TheReport.dataset_quality_score >= 60
    /\ 10 * ErrorsRaised > Len(data)

---------------------------------------------------------------------------
(* C18: validateData never holds more than 1000 issues in its issues array and
   returns at most 100 of them, the first ones in the order in which they were
   found, while error_count, warning_count and the severity counts of every
   field count every finding, also those found after the array was full. *)

\* every finding of the two passes, in the order in which it was found
AllFindings == Get(tally).found \o Get(tally).outliers

FindingsOf(col, sev) ==
    Cardinality({ k \in 1..Len(AllFindings) :
                    AllFindings[k].column = col /\ AllFindings[k].severity = sev })

C18_Caps ==
    /\ (mode = "validateData" /\ IsSome(tally)) => Len(Get(tally).issues) <= 1000
    /\ ValidateReturned =>
         /\ Len(TheReport.issues) <= 100
         /\ Len(TheReport.issues) = Len(AllFindings) \/ Len(TheReport.issues) = 100
         /\ \A k \in 1..Len(TheReport.issues) : TheReport.issues[k] = AllFindings[k]
         /\ Len(Get(tally).found) = Len(Raising(data, semantics))
         /\ TheReport.error_count = ErrorsRaised
         /\ TheReport.warning_count = WarningsRaised
         /\ \A c \in 1..Len(semantics) :
              /\ TheReport.field_validation_results[c].severity_counts.critical
                   = FindingsOf(semantics[c][1], "critical")
              /\ TheReport.field_validation_results[c].severity_counts.warning
                   = FindingsOf(semantics[c][1], "warning")

\* a report on a sheet with more than 1000 findings
C18_Witness ==
    /\ ValidateReturned
    /\ Len(AllFindings) > 1000
    /\ Len(Get(tally).issues) = 1000
    /\ Len(TheReport.issues) = 100
    /\ TheReport.error_count > 1000

---------------------------------------------------------------------------
(* Vocabulary of the claims about the outlier pass of validateData *)

AmountColumns == { c \in 1..Len(semantics) : semantics[c][2] = "numeric_amount" }

\* the rows that hold a numeric value in the column: the value is present and
\* reads as a number
NumericRows(col) ==
    { i \in 1..Len(data) :
        /\ ~IsMissing(Cell(data[i], col))
        /\ IsSome(NumberOfText(Trim(String(Cell(data[i], col))))) }

\* the numeric values of the column, by row
Amounts(col) ==
    [i \in NumericRows(col) |-> Get(NumberOfText(Trim(String(Cell(data[i], col)))))]

\* the value at index k (from 0) of the values in ascending order
Ranked(values, k) ==
    CHOOSE v \in { values[i] : i \in DOMAIN values } :
      /\ Cardinality({ i \in DOMAIN values : values[i] < v }) <= k
      /\ k < Cardinality({ i \in DOMAIN values : values[i] <= v })

\* Q1 and Q3: the sorted values at index floor(0.25 * n) and floor(0.75 * n)
Quartiles(values) ==
    [q1 |-> Ranked(values, Cardinality(DOMAIN values) \div 4),
     q3 |-> Ranked(values, (3 * Cardinality(DOMAIN values)) \div 4)]

\* the value lies below Q1 - 1.5 * IQR or above Q3 + 1.5 * IQR
OutsideFences(v, q) ==
    \/ 2 * v < 2 * q.q1 - 3 * (q.q3 - q.q1)
    \/ 2 * v > 2 * q.q3 + 3 * (q.q3 - q.q1)

\* the rows of the column whose value lies outside the Tukey fences, none when
\* the column has fewer than 10 numeric values
TukeyRows(col) ==
    Bind(Amounts(col),
         LAMBDA values :
           IF Cardinality(DOMAIN values) < 10 THEN {}
           ELSE Bind(Quartiles(values),
                     LAMBDA q : { i \in DOMAIN values : OutsideFences(values[i], q) }))

\* the rows (from 1) that carry an outlier warning of the column
FlaggedRows(col) ==
    { Get(tally).outliers[k].row :
        k \in { j \in 1..Len(Get(tally).outliers) : Get(tally).outliers[j].column = col } }

---------------------------------------------------------------------------
(* C19: for a numeric_amount column with at least 10 numeric values the rows
   that carry an outlier warning are exactly the rows whose value lies outside
   the Tukey fences Q1 - 1.5 * IQR and Q3 + 1.5 * IQR, one warning each; a
   column with fewer than 10 numeric values carries none. *)

C19_Outliers ==
    ValidateReturned =>
      \A c \in AmountColumns :
        /\ FlaggedRows(semantics[c][1]) = TukeyRows(semantics[c][1])
        /\ Cardinality(FlaggedRows(semantics[c][1]))
             = Cardinality({ j \in 1..Len(Get(tally).outliers) :
                               Get(tally).outliers[j].column = semantics[c][1] })

---------------------------------------------------------------------------
(* Vocabulary of the claims about validateRecord *)

\* the record was handed to validateRecord
Validated(i) == \E k \in 1..Len(validated) : validated[k] = i

\* structured_content is missing, empty or white space only
NoContent(record) ==
    \/ ~IsSome(record.structured_content)
    \/ IsBlank(Get(record.structured_content))

\* the general rules hold of the errors validateRecord has collected for the record
GeneralRulesHold(record, errors) ==
    /\ NoContent(record) =>
         \E e \in 1..Len(errors) :
           errors[e].code = "EMPTY_CONTENT" /\ errors[e].severity = "CRITICAL"
    /\ record.topic = "" =>
         \E e \in 1..Len(errors) :
           errors[e].code = "MISSING_TOPIC" /\ errors[e].severity = "HIGH"
    /\ record.group_id = "" =>
         \E e \in 1..Len(errors) :
           errors[e].code = "MISSING_GROUP_ID" /\ errors[e].severity = "HIGH"

---------------------------------------------------------------------------
(* C20: for every record handed to it, whatever its source type, validateRecord
   returns and does not throw; the result is valid exactly when its list of
   errors is empty; the list holds a CRITICAL error when structured_content is
   missing, empty or white space only, a HIGH error when topic is empty and a
   HIGH error when group_id is empty. *)

C20_Returns ==
    mode = "processBatch" =>
      \A i \in Ids :
        Validated(i) =>
          /\ ~validateRecord(records[i]).threw
          /\ isValid(validateRecord(records[i])) <=> Len(validateRecord(records[i]).errors) = 0
          /\ GeneralRulesHold(records[i], validateRecord(records[i]).errors)

---------------------------------------------------------------------------
(* Vocabulary of the claims about the api and csv rules of validateRecord *)

\* the content the rules parse: raw_content if present, else structured_content
Parsed(i) == JsonParse(ContentToCheck(records[i]))

\* the parsed content is an object with a key topic or Topic
HasTopicKey(i) ==
    /\ IsSome(Parsed(i))
    /\ ~Get(Parsed(i)).isNull
    /\ Get(Parsed(i)).keys \cap {"topic", "Topic"} # {}

Reports(i, code, severity) ==
    \E e \in 1..Len(validateRecord(records[i]).errors) :
      /\ validateRecord(records[i]).errors[e].code = code
      /\ validateRecord(records[i]).errors[e].severity = severity

\* the next record of the same file, if any, was handed to validateRecord
FileGoesOn(i) ==
    \A j \in (i + 1)..Len(records) :
      (SameFile(i, j) /\ \A h \in (i + 1)..(j - 1) : ~SameFile(i, h)) => Validated(j)

---------------------------------------------------------------------------
(* C21: validateRecord reports an api record whose content (raw_content if
   present, else structured_content) is not JSON as CRITICAL and one whose
   parsed content has a key topic or Topic as HIGH; it reports a csv record whose
   content is not JSON as CRITICAL and one with a key topic or Topic as MEDIUM
   only.  In processBatch such a csv record is a SUCCESS counted as a warning,
   and such an api record is FAILED while its file goes on. *)

C21_Structured ==
    Done =>
      \A i \in Ids :
        Validated(i) =>
          /\ records[i].source_type = "api" =>
               /\ ~IsSome(Parsed(i)) <=> Reports(i, "INVALID_JSON", "CRITICAL")
               /\ HasTopicKey(i) <=> Reports(i, "INDEPENDENT_TOPIC_DEFINED", "HIGH")
               /\ HasTopicKey(i) =>
                    /\ Outcome(BatchResult, i).status = "FAILED"
                    /\ FileGoesOn(i)
          /\ records[i].source_type = "csv" =>
               /\ ~IsSome(Parsed(i)) <=> Reports(i, "INVALID_CSV_JSON", "CRITICAL")
               /\ HasTopicKey(i) <=> Reports(i, "CSV_TOPIC_COLUMN", "MEDIUM")
               /\ HasTopicKey(i) =>
                    /\ ~HasSeverity(validateRecord(records[i]).errors, "HIGH")
                    /\ Outcome(BatchResult, i).status = "SUCCESS"
                    /\ summary.warnings >= 1

---------------------------------------------------------------------------
(* C22: the metadata of the record the earlier cleanUnifiedData pushes has every
   key of the input record's metadata with the value it had there; keys are only
   added. *)

C22_KeysKept ==
    (mode = "enrichMetadata" /\ pc = "done") =>
      \A key \in DOMAIN Get(draft).metadata :
        /\ key \in DOMAIN Get(enriched).metadata
        /\ Get(enriched).metadata[key] = Get(draft).metadata[key]

---------------------------------------------------------------------------
(* Vocabulary of the claims about the fields cleanUnifiedData leaves alone *)

\* the input record with this id
InputOf(id) == cleanArgs[CHOOSE i \in 1..Len(cleanArgs) : cleanArgs[i].id = id]

Structured(record) == record.source_type \in {"api", "csv", "log"}

---------------------------------------------------------------------------
(* C23: every record cleanUnifiedData returns has the id of an input record and
   the source_type, raw_content, created_at, topic and group_id of that record;
   when its source_type is api, csv or log it has its structured_content too. *)

C23_Frame ==
    CleanReturned =>
      \A k \in 1..Len(cleanedRecords) :
        /\ \E i \in 1..Len(cleanArgs) : cleanArgs[i].id = cleanedRecords[k].id
        /\ cleanedRecords[k].source_type = InputOf(cleanedRecords[k].id).source_type
        /\ cleanedRecords[k].raw_content = InputOf(cleanedRecords[k].id).raw_content
        /\ cleanedRecords[k].created_at = InputOf(cleanedRecords[k].id).created_at
        /\ cleanedRecords[k].topic = InputOf(cleanedRecords[k].id).topic
        /\ cleanedRecords[k].group_id = InputOf(cleanedRecords[k].id).group_id
        /\ Structured(cleanedRecords[k]) =>
             cleanedRecords[k].structured_content
               = InputOf(cleanedRecords[k].id).structured_content

\* a call that returns a log record whose content the text cleaning would have
\* rewritten, next to a text record whose content it did rewrite
C23_Witness ==
    /\ CleanReturned
    /\ \E k, l \in 1..Len(cleanedRecords) :
         /\ cleanedRecords[k].source_type = "log"
         /\ IsSome(cleanedRecords[k].raw_content)
         /\ CleanText_AllTypes(cleanedRecords[k], << >>).content
              # Get(cleanedRecords[k].structured_content)
         /\ cleanedRecords[l].source_type = "text"
         /\ cleanedRecords[l].structured_content
              # InputOf(cleanedRecords[l].id).structured_content

---------------------------------------------------------------------------
(* Vocabulary of the claims about the group id *)

HexDigits == {"0", "1", "2", "3", "4", "5", "6", "7", "8", "9", "a", "b", "c", "d", "e", "f"}

\* the digits of the hash generateShortHash returns for a topic
HashDigits(topic) ==
    SubSeq(PadStart(ToString16(MathAbs(HashLoop(<<0, 0>>, CharCodes(topic)))), 4, "0"), 1, 4)

\* slug, hyphen, four hexadecimal digits
WellFormedGroup(topic, group) ==
    /\ Len(HashDigits(topic)) = 4
    /\ \A d \in 1..4 : HashDigits(topic)[d] \in HexDigits
    /\ group = "topic-" \o kebabTopic(topic) \o "-" \o Join(HashDigits(topic))

\* the (topic, group_id) pairs of the records mapped so far in this call
LinkedPairs == { <<linked[k].topic, linked[k].group_id>> : k \in 1..Len(linked) }

---------------------------------------------------------------------------
(* C24: the group_id of a linked record is a function of its topic alone: it is
   'topic-', the slug of the topic, a hyphen and a hash of exactly 4 hexadecimal
   digits of the topic, so two records with the same topic carry the same
   group_id, in one call and across calls (the pairs registered by earlier calls
   included), and what earlier calls left in TOPIC_REGISTRY does not change what a
   call returns: every returned record is the one the callback computes from the
   call's own arguments. *)
C24_GroupOfTopic ==
    (mode = "linkRecordsByTopic") =>
      /\ \A pair \in LinkedPairs \cup TOPIC_REGISTRY : WellFormedGroup(pair[1], pair[2])
      /\ \A p, q \in LinkedPairs \cup TOPIC_REGISTRY : p[1] = q[1] => p[2] = q[2]
      /\ \A k \in 1..Len(linked) :
           linked[k] = LinkOne(linkArgs[k], AnchorOf(FindPdfAnchor(linkArgs)))

\* a second call without a document returns two records of one topic and one of
\* another, while the registry holds the pair of the first call's document
C24_Witness ==
    /\ LinkReturned
    /\ calls = 2
    /\ ~HasPdf
    /\ TOPIC_REGISTRY # {}
    /\ TOPIC_REGISTRY \cap LinkedPairs = {}
    /\ \E k, l, m \in 1..Len(linked) :
         /\ k # l
         /\ linked[k].topic = linked[l].topic
         /\ linked[m].topic # linked[k].topic

---------------------------------------------------------------------------
(* Vocabulary of the claims about the records linkRecordsByTopic returns *)

\* the codes validateRecord collects for a record, whether it returns or throws
CodesOf(record) ==
    { validateRecord(record).errors[e].code : e \in DOMAIN validateRecord(record).errors }

\* the record differs from the input record in topic and group_id at most
SameButLink(out, in) == [out EXCEPT !.topic = in.topic, !.group_id = in.group_id] = in

Contentless(record) == ~Truthy(record.structured_content) /\ ~Truthy(record.raw_content)

---------------------------------------------------------------------------
(* C25: linkRecordsByTopic returns one record per input record, in input order:
   the k-th returned record is the k-th input record with a topic and a group_id
   that are both non-empty, also for a record without content or with content
   that names no subject of the taxonomy, so validateRecord reports neither
   MISSING_TOPIC nor MISSING_GROUP_ID for a returned record. *)
C25_AlwaysLinked ==
    (mode = "linkRecordsByTopic") =>
      /\ Len(linked) <= Len(linkArgs)
      /\ LinkReturned => Len(linked) = Len(linkArgs)
      /\ \A k \in 1..Len(linked) :
           /\ SameButLink(linked[k], linkArgs[k])
           /\ ~BlankStr(linked[k].topic)
           /\ ~BlankStr(linked[k].group_id)
           /\ CodesOf(linked[k]) \cap {"MISSING_TOPIC", "MISSING_GROUP_ID"} = {}

\* a returned batch of three records without a document: one without any content,
\* falling back to the generic topic, and one whose content names a subject; both
\* would have been reported before the call
C25_Witness ==
    /\ LinkReturned
    /\ ~HasPdf
    /\ Len(linked) = MaxLink
    /\ \E k, l \in 1..Len(linked) :
         /\ Contentless(linkArgs[k])
         /\ linked[k].topic = "General Unclassified"
         /\ linked[l].topic = "Database Systems"
         /\ {"MISSING_TOPIC", "MISSING_GROUP_ID"} \subseteq CodesOf(linkArgs[k])
         /\ {"MISSING_TOPIC", "MISSING_GROUP_ID"} \subseteq CodesOf(linkArgs[l])

---------------------------------------------------------------------------
(* Vocabulary of the claims about the contact column of cleanData *)

\* the value of the contact column in the input row at position i
Contact(i) == Cell(data[i], "Contact")

\* a string with no '@' and no digit
NeitherMailNorNumber(value) ==
    /\ value.t = "str"
    /\ ~IncludesAt(value.v)
    /\ StripNonDigits(value.v) = << >>

\* the cleaned row of the input row at position i, which the identifier check kept
CleanedRow(i) == rowPhase.cleaned_data[Cardinality({ j \in 1..i : FirstOfId(j) })]

---------------------------------------------------------------------------
(* C27: in cleanData, a contact_info value that holds no '@' and no digit, such
   as 'not-an-email', passes through: the field of the cleaned row holds the
   same string and not null.  The code does not keep this: a value without '@'
   is reduced to its digits and set to null unless it has 7 to 15 of them. *)
C27_PassThrough ==
    (mode = "cleanData" /\ pc \in {"validate", "done"}) =>
      \A i \in Rows :
        (FirstOfId(i) /\ NeitherMailNorNumber(Contact(i))) =>
          CleanedRow(i).contact = Contact(i)

---------------------------------------------------------------------------
(* Vocabulary of the claims about inferSemanticMapping *)

InferReturned == mode = "inferSemanticMapping" /\ pc = "done"

SemanticTypes ==
    {"contact_info", "boolean_flag", "date", "identifier", "numeric_amount", "name",
     "free_text", "categorical"}

\* the rules in their order, each with the type it assigns, on the measures of a
\* column's values and the words of its name; the last one matches every column
RulesOn(m, tks) ==
    << <<"contact_info",
         \/ RatioAbove(m.emails, m.nonNull, 5)
         \/ RatioAbove(m.phones, m.nonNull, 5)
         \/ hasToken(tks, contactTokens)>>,
       <<"boolean_flag", RatioAbove(m.boolish, m.nonNull, 7)>>,
       <<"date", hasToken(tks, dateTokens) \/ RatioAbove(m.dates, m.nonNull, 6)>>,
       <<"identifier",
         \/ RatioAbove(m.uniques, m.nonNull, 9) /\ m.lengths >= 6 * m.nonNull
         \/ hasToken(tks, idTokens)>>,
       <<"numeric_amount",
         /\ RatioAbove(m.numeric, m.nonNull, 7)
         /\ (m.currencyHit \/ hasToken(tks, amountTokens))>>,
       <<"name", hasToken(tks, nameTokens)>>,
       <<"free_text", hasToken(tks, textTokens) \/ m.lengths > 20 * m.nonNull>>,
       <<"categorical",
         \/ hasToken(tks, categoryHintTokens)
         \/ m.nonNull = 0
         \/ 10 * m.uniques < 2 * m.nonNull>>,
       <<"numeric_amount", RatioAbove(m.numeric, m.nonNull, 7)>>,
       <<"free_text", TRUE>> >>

MatchingIn(rules) == { k \in 1..Len(rules) : rules[k][2] }

FirstIn(rules, matching) == rules[CHOOSE k \in matching : \A l \in matching : k <= l][1]

\* the rules that match a column of the sheet, by their place in the order
Matching(col) ==
    Bind(Measures(ColumnValues(sample, col)),
         LAMBDA m : MatchingIn(RulesOn(m, tokens(col))))

\* the type of the first rule that matches the column
FirstMatch(col) ==
    Bind(Measures(ColumnValues(sample, col)),
         LAMBDA m : Bind(RulesOn(m, tokens(col)),
                         LAMBDA rules : FirstIn(rules, MatchingIn(rules))))

\* the sheet cut down to one column
OnlyColumn(col) ==
    [r \in 1..Len(sample) |->
       [c \in DOMAIN sample[r] \cap {col} |-> sample[r][c]]]

---------------------------------------------------------------------------
(* C26: the mapping inferSemanticMapping returns gives every analysed column,
   and nothing else, exactly one of the eight semantic types: the type of the
   first rule that matches in the order contact_info, boolean_flag, date,
   identifier, numeric_amount (currency sign or amount word), name, free_text,
   categorical, numeric_amount (fallback), and free_text when none matches; the
   type of a column is the one a call on that column alone returns, whatever the
   other columns of the sheet. *)
C26_FirstRule ==
    InferReturned =>
      /\ DOMAIN Get(inferred) = Range(analysis)
      /\ \A col \in Range(analysis) :
           /\ Get(inferred)[col] \in SemanticTypes
           /\ Get(inferred)[col] = FirstMatch(col)
           /\ Get(inferred)[col] = inferSemanticMapping(<<col>>, OnlyColumn(col))[col]

\* a sheet of two columns: one whose name holds a name word and an amount word
\* over amounts, which the amount rule takes before the name rule, and one that
\* matches no rule
C26_Witness ==
    /\ InferReturned
    /\ Len(analysis) = 2
    /\ \E col, other \in Range(analysis) :
         /\ {5, 6} \subseteq Matching(col)
         /\ Matching(col) \cap (1..4) = {}
         /\ Get(inferred)[col] = "numeric_amount"
         /\ Matching(other) = {10}
         /\ Get(inferred)[other] = "free_text"

---------------------------------------------------------------------------
(* Vocabulary of the claims about the warnings of validateData *)

Fields == TheReport.field_validation_results

\* the score is at least 100 * valid / total - 50, rounded: twice the total times
\* the score is at least twice the total times that number, less the half that
\* rounding may take
AtMostFiftyOff(field) ==
    2 * field.total_values * field.quality_score
      >= 200 * field.valid_values - 100 * field.total_values - field.total_values

---------------------------------------------------------------------------
(* C28: in the report validateData returns, warnings lower the quality score of
   a field by at most 50 points: the score of every field with values is at
   least 100 * valid_values / total_values - 50, up to rounding, however many
   warnings its values raise.  The code does not keep this: the penalty is
   50 * warnings / total_values, and a value can raise more than one warning. *)
C28_PenaltyCap ==
    ValidateReturned =>
      \A k \in 1..Len(Fields) : Fields[k].total_values > 0 => AtMostFiftyOff(Fields[k])

---------------------------------------------------------------------------
(* C29: the outlier pass of validateData flags only rows whose value the
   value-level pass counted as numeric: a row whose numeric_amount value is
   null, undefined or '' carries no outlier warning.  The code does not keep
   this: the pass reads every row's raw cell with Number, and Number(null) and
   Number('') are 0. *)
C29_NumericOnly ==
    (mode = "validateData" /\ pc \in {"score", "done"}) =>
      \A c \in AmountColumns : FlaggedRows(semantics[c][1]) \subseteq NumericRows(semantics[c][1])

---------------------------------------------------------------------------
(* Vocabulary of the claims about the statistics of cleanUnifiedData *)

CleanStats == Get(cleanOut).stats

\* the input records the duplicate check dropped
DuplicatesDropped == Len(cleanArgs) - Len(phase.cleanedTextRecords)

\* the records that reached the batch validator and were not returned
FailedByValidator == Len(phase.cleanedTextRecords) - Len(cleanedRecords)

---------------------------------------------------------------------------
(* C30: in the stats cleanUnifiedData returns, initial_records is the number of
   input records and equals records_after_cleaning + dropped_records;
   dropped_records is the number of duplicates dropped plus the number of
   records the batch validator failed; records_after_validation is the number
   of records that reached the batch validator; records_after_cleaning is the
   number of records returned. *)
C30_Stats ==
    CleanReturned =>
      /\ CleanStats.initial_records = Len(cleanArgs)
      /\ CleanStats.initial_records
           = CleanStats.records_after_cleaning + CleanStats.dropped_records
      /\ CleanStats.dropped_records = DuplicatesDropped + FailedByValidator
      /\ CleanStats.records_after_validation = Len(phase.cleanedTextRecords)
      /\ CleanStats.records_after_cleaning = Len(cleanedRecords)

\* a call on three records that drops a duplicate, has a record failed by the
\* validator and returns one record
C30_Witness ==
    /\ CleanReturned
    /\ Len(cleanArgs) = 3
    /\ DuplicatesDropped = 1
    /\ FailedByValidator = 1
    /\ Len(cleanedRecords) = 1
    /\ CleanStats.dropped_records = 2

=============================================================================
